---- MODULE Spec2Model ----
(***************************************************************************)
(* SynthCorp factory control: machines and their state handlers, the       *)
(* inventory ledger with its replenishment timers, production lines and    *)
(* the dashboard's start/stop handlers with the inventory consumption      *)
(* thread.                                                                 *)
(***************************************************************************)
EXTENDS Integers, Sequences, FiniteSets, Bags, TLC

(***************************************************************************)
(* Bounds of the model                                                     *)
(***************************************************************************)
\* longest observer list a machine gets in the model
MaxObservers == 2
\* longest command history the invoker gets in the model
MaxHistory == 2
\* add_item is not repeated for an item whose mirrored level is above this
MaxStock == 4
\* the quantities, reorder levels and amounts the ledger is driven with
MaxQuantity == 3
MaxLevel == 2
MaxAmount == 2
\* no new remove_item call is started with this many timers pending
MaxTimers == 2
\* the number of production starts that get as far as starting a thread
MaxLoops == 2
\* no safety check is made once a protocol has this many violations
MaxViolations == 2
\* the number of production lines built in the model of the builder
MaxLines == 2
\* the number of rounds the consumption threads make in all
MaxTicks == 2
\* the small batch sizes and order quantities the mass strategy is tried with
MaxBatchSize == 4
MaxOrderQuantity == 15

(***************************************************************************)
(* Fixed universe                                                          *)
(***************************************************************************)
\* the machines of dashboard.initialize_default_system
Machines == {"AR001", "PR001", "QC001"}
\* MaintenanceEngineer("Person1"), ProductionManager("Person2")
Observers == {"Person1", "Person2"}
\* core.machine.MachineState
MachineState == {"IDLE", "ACTIVE", "MAINTENANCE", "ERROR"}
\* the four requests of MachineStateContext
Requests == {"handle_start", "handle_stop", "handle_maintenance", "handle_error"}

VARIABLES
    state,        \* Machine._state of every machine
    perf,         \* keys of Machine._performance_data of every machine
    observers,    \* Machine._observers of every machine, in attach order
    notes,        \* observer.update calls made by the last operation, in order
    ret,          \* the last operation: its name, its target, its return value
    lines,        \* the ProductionLine objects built so far, in order of construction
    commands,     \* CommandInvoker._commands: (name, command) in registration order
    history,      \* CommandInvoker._history: indices into commands, oldest first
    snapshots,    \* the status the line had when each execution of history began, oldest first
    inventory,    \* InventorySystem.inventory: item id -> quantity
    reorder_levels, \* InventorySystem.reorder_levels: item id -> level
    on_order,     \* InventorySystem.on_order: item id -> quantity on order
    cc_inventory, \* CentralControlSystem._inventory: item id -> level
    timers,       \* the started threading.Timer objects that have not fired: a bag of <<item id, quantity>>
    calls,        \* per calling thread, the remove_item call it is in: its position and arguments
    consumption_active, \* SynthCorpDashboard.consumption_active
    current_production, \* SynthCorpDashboard.current_production: index into lines, 0 for None
    loops,        \* the consumption threads started so far: position and strategy_type of each
    tk,           \* the Tk thread: the handler it is in and how far
    stop_returned, \* the consumption threads during whose life a stop or shutdown handler has returned
    ticks,        \* how many times a consumption thread entered the body of its loop
    registry,     \* CentralControlSystem._machines: (machine id, machine) in order of first insertion
    active_production, \* CentralControlSystem._active_production: an order id, "None" for None
    violations,   \* SafetyProtocol.violations of the protocols of _safety_protocols, in order
    safety_results, \* what the last check_safety_protocols call returned
    strategy_context, \* ProductionStrategyContext.strategy of main.py's strategy_context
    batch_size,   \* MassProductionStrategy.batch_size of the mass strategy
    requirements, \* what its last calculate_resource_requirements call returned
    instance      \* CentralControlSystem._instance: 0 for None, otherwise the identity of the object

machineVars == <<state, perf, observers>>
lineVars == <<lines, commands, history, snapshots>>
ledgerVars == <<inventory, reorder_levels, on_order, cc_inventory, timers>>
dashVars == <<consumption_active, current_production, loops, tk, stop_returned, ticks>>
strategyVars == <<batch_size, requirements>>
ctlVars == <<registry, active_production, violations, safety_results, strategy_context,
             strategyVars, instance>>
vars == <<state, perf, observers, notes, ret, lines, commands, history, snapshots,
          inventory, reorder_levels, on_order, cc_inventory, timers, calls,
          consumption_active, current_production, loops, tk, stop_returned, ticks,
          registry, active_production, violations, safety_results, strategy_context,
          batch_size, requirements, instance>>

(***************************************************************************)
(* core/machine.py                                                         *)
(***************************************************************************)
\* The machine-side state an operation works on, as one value.
MachineRec == [state |-> state, perf |-> perf, notes |-> <<>>]

\* Machine.notify_observers: one update call per attached observer, in list
\* order; the observer reads machine.state, which is the state at that time.
notify_observers(mc, m, message) ==
    [mc EXCEPT !.notes = @ \o
        [i \in 1..Len(observers[m]) |->
            [observer |-> observers[m][i], machine |-> m,
             seen |-> mc.state[m], message |-> message]]]

\* Machine.set_state: assign, then notify (also when the state is the same).
set_state(mc, m, s) ==
    notify_observers([mc EXCEPT !.state[m] = s], m,
                     <<"State changed", mc.state[m], s>>)

\* Machine.update_performance_data
update_performance_data(mc, m, key) ==
    notify_observers([mc EXCEPT !.perf[m] = @ \cup {key}], m,
                     <<"Performance data updated", key>>)

\* AssemblyRobot / PackagingRobot / QualityControlBot .start_operation
start_operation(mc, m) == set_state(mc, m, "ACTIVE")

\* AssemblyRobot / PackagingRobot / QualityControlBot .stop_operation
stop_operation(mc, m) == set_state(mc, m, "IDLE")

(***************************************************************************)
(* patterns/behavioral/state_pattern.py                                    *)
(***************************************************************************)
Handled(mc, val) == [mc |-> mc, val |-> val]

IdleStateHandler(mc, m, req) ==
    CASE req = "handle_start"       -> Handled(set_state(mc, m, "ACTIVE"), TRUE)
      [] req = "handle_stop"        -> Handled(mc, FALSE)
      [] req = "handle_maintenance" -> Handled(set_state(mc, m, "MAINTENANCE"), TRUE)
      [] req = "handle_error"       -> Handled(set_state(mc, m, "ERROR"), TRUE)

\* ActiveStateHandler whose rejected start still re-enters set_state
ActiveStateHandler_renotify(mc, m, req) ==
    CASE req = "handle_start"       -> Handled(set_state(mc, m, "ACTIVE"), FALSE)
      [] req = "handle_stop"        -> Handled(set_state(mc, m, "IDLE"), TRUE)
      [] req = "handle_maintenance" -> Handled(mc, FALSE)
      [] req = "handle_error"       ->
            Handled(update_performance_data(set_state(mc, m, "ERROR"), m, "last_error"), TRUE)

ActiveStateHandler(mc, m, req) ==
    CASE req = "handle_start"       -> Handled(mc, FALSE)
      [] req = "handle_stop"        -> Handled(set_state(mc, m, "IDLE"), TRUE)
      [] req = "handle_maintenance" -> Handled(mc, FALSE)
      [] req = "handle_error"       ->
            Handled(update_performance_data(set_state(mc, m, "ERROR"), m, "last_error"), TRUE)

\* MaintenanceStateHandler that accepts a start request
MaintenanceStateHandler_restarts(mc, m, req) ==
    CASE req = "handle_start"       -> Handled(set_state(mc, m, "ACTIVE"), TRUE)
      [] req = "handle_stop"        -> Handled(set_state(mc, m, "IDLE"), TRUE)
      [] req = "handle_maintenance" -> Handled(mc, FALSE)
      [] req = "handle_error"       ->
            Handled(update_performance_data(set_state(mc, m, "ERROR"), m, "maintenance_error"), TRUE)

MaintenanceStateHandler(mc, m, req) ==
    CASE req = "handle_start"       -> Handled(mc, FALSE)
      [] req = "handle_stop"        -> Handled(set_state(mc, m, "IDLE"), TRUE)
      [] req = "handle_maintenance" -> Handled(mc, FALSE)
      [] req = "handle_error"       ->
            Handled(update_performance_data(set_state(mc, m, "ERROR"), m, "maintenance_error"), TRUE)

\* ErrorStateHandler that lets a stop request leave the error state
ErrorStateHandler_stops(mc, m, req) ==
    CASE req = "handle_start"       -> Handled(mc, FALSE)
      [] req = "handle_stop"        -> Handled(set_state(mc, m, "IDLE"), TRUE)
      [] req = "handle_maintenance" -> Handled(set_state(mc, m, "MAINTENANCE"), TRUE)
      [] req = "handle_error"       ->
            Handled(update_performance_data(mc, m, "additional_error"), TRUE)

ErrorStateHandler(mc, m, req) ==
    CASE req = "handle_start"       -> Handled(mc, FALSE)
      [] req = "handle_stop"        -> Handled(mc, FALSE)
      [] req = "handle_maintenance" -> Handled(set_state(mc, m, "MAINTENANCE"), TRUE)
      [] req = "handle_error"       ->
            Handled(update_performance_data(mc, m, "additional_error"), TRUE)

\* MachineStateContext.get_state_handler followed by the handler's method
get_state_handler(mc, m, req) ==
    CASE mc.state[m] = "IDLE"        -> IdleStateHandler(mc, m, req)
      [] mc.state[m] = "ACTIVE"      -> ActiveStateHandler(mc, m, req)
      [] mc.state[m] = "MAINTENANCE" -> MaintenanceStateHandler(mc, m, req)
      [] mc.state[m] = "ERROR"       -> ErrorStateHandler(mc, m, req)

RECURSIVE RequestStopAll(_, _)
\* every machine asked to stop through its state handler
RequestStopAll(mc, ms) ==
    IF ms = <<>> THEN mc
    ELSE RequestStopAll(get_state_handler(mc, Head(ms), "handle_stop").mc, Tail(ms))

\* The last operation, as the claims read it.
Ret(op, target, val) ==
    [op |-> op, target |-> target, arg |-> 0, val |-> val, exc |-> "none"]

\* The last operation when it took a number as argument.
RetArg(op, target, arg, val) ==
    [op |-> op, target |-> target, arg |-> arg, val |-> val, exc |-> "none"]

\* The last operation ended by raising exception e.
Raised(op, target, e) ==
    [op |-> op, target |-> target, arg |-> 0, val |-> FALSE, exc |-> e]

SetMachine(mc) ==
    /\ state' = mc.state
    /\ perf' = mc.perf
    /\ notes' = mc.notes

\* MachineStateContext.handle_start / handle_stop / handle_maintenance /
\* handle_error on machine m
HandleRequest(m, req) ==
    LET h == get_state_handler(MachineRec, m, req) IN
    /\ SetMachine(h.mc)
    /\ ret' = Ret(req, m, h.val)
    /\ UNCHANGED <<observers, lineVars, ledgerVars, calls, dashVars, ctlVars>>

\* Machine.attach_observer
attach_observer(m, o) ==
    /\ Len(observers[m]) < MaxObservers
    /\ observers' = [observers EXCEPT ![m] = Append(@, o)]
    /\ notes' = <<>>
    /\ ret' = Ret("attach_observer", m, TRUE)
    /\ UNCHANGED <<state, perf, lineVars, ledgerVars, calls, dashVars, ctlVars>>

\* list.remove: drop the first occurrence
RemoveFirst(s, o) ==
    LET i == CHOOSE j \in 1..Len(s) : s[j] = o /\ \A k \in 1..(j-1) : s[k] # o
    IN  SubSeq(s, 1, i-1) \o SubSeq(s, i+1, Len(s))

\* Machine.detach_observer
detach_observer(m, o) ==
    /\ observers' = [observers EXCEPT ![m] =
            IF \E j \in 1..Len(@) : @[j] = o THEN RemoveFirst(@, o) ELSE @]
    /\ notes' = <<>>
    /\ ret' = Ret("detach_observer", m, TRUE)
    /\ UNCHANGED <<state, perf, lineVars, ledgerVars, calls, dashVars, ctlVars>>

(***************************************************************************)
(* patterns/creational/builder_pattern.py                                  *)
(***************************************************************************)
\* ProductionLine.__init__ followed by the builder's setters
ProductionLine(assembly, packaging, quality, strategy) ==
    [assembly_robots |-> assembly, packaging_robots |-> packaging,
     quality_control_bots |-> quality, production_strategy |-> strategy,
     status |-> "idle"]

\* a line that drives its assembly robots only
Robots_assembly(ln) == ln.assembly_robots

\* assembly_robots + packaging_robots + quality_control_bots
Robots(ln) == ln.assembly_robots \o ln.packaging_robots \o ln.quality_control_bots

RECURSIVE StartAll(_, _)
\* for robot in ...: robot.start_operation()
StartAll(mc, robots) ==
    IF robots = <<>> THEN mc
    ELSE StartAll(start_operation(mc, Head(robots)), Tail(robots))

RECURSIVE StopAll(_, _)
\* for robot in ...: robot.stop_operation()
StopAll(mc, robots) ==
    IF robots = <<>> THEN mc
    ELSE StopAll(stop_operation(mc, Head(robots)), Tail(robots))

\* The outcome of a call on line l: the lines, the machines, what it returned.
Outcome(lns, mc, val, exc) == [lines |-> lns, mc |-> mc, val |-> val, exc |-> exc]

\* a start that does not test the strategy
LineStart_unchecked(lns, mc, l) ==
    IF lns[l].assembly_robots = <<>> THEN Outcome(lns, mc, FALSE, "ValueError")
    ELSE Outcome([lns EXCEPT ![l].status = "running"],
                 StartAll(mc, Robots(lns[l])), TRUE, "none")

\* ProductionLine.start
LineStart(lns, mc, l) ==
    IF lns[l].assembly_robots = <<>> THEN Outcome(lns, mc, FALSE, "ValueError")
    ELSE IF lns[l].production_strategy = "None" THEN Outcome(lns, mc, FALSE, "ValueError")
    ELSE Outcome([lns EXCEPT ![l].status = "running"],
                 StartAll(mc, Robots(lns[l])), TRUE, "none")

\* a stop that asks every robot's state handler to stop
LineStop_guarded(lns, mc, l) ==
    Outcome([lns EXCEPT ![l].status = "idle"], RequestStopAll(mc, Robots(lns[l])),
            TRUE, "none")

\* ProductionLine.stop
LineStop(lns, mc, l) ==
    Outcome([lns EXCEPT ![l].status = "idle"], StopAll(mc, Robots(lns[l])), TRUE, "none")

\* What a director call leaves: the line it returned, or the exception.
Built(ln) == [line |-> ln, exc |-> "none"]
NotBuilt == [line |-> ProductionLine(<<>>, <<>>, <<>>, "None"), exc |-> "ValueError"]

\* ProductionDirector.construct_production_line
construct_production_line(assembly, packaging, quality, strategy) ==
    IF assembly = <<>> THEN NotBuilt
    ELSE Built(ProductionLine(assembly, packaging, quality, strategy))

\* ProductionDirector.construct_mass_production_line
construct_mass_production_line(assembly, packaging, quality, strategy) ==
    IF packaging = <<>> THEN NotBuilt
    ELSE IF quality = <<>> THEN NotBuilt
    ELSE construct_production_line(assembly, packaging, quality, strategy)

\* a custom-batch constructor that does not ask for quality control bots
construct_custom_batch_line_unchecked(assembly, packaging, quality, strategy) ==
    construct_production_line(assembly, packaging, quality, strategy)

\* ProductionDirector.construct_custom_batch_line
construct_custom_batch_line(assembly, packaging, quality, strategy) ==
    IF quality = <<>> THEN NotBuilt
    ELSE construct_production_line(assembly, packaging, quality, strategy)

\* the three constructors of the director, by production type
LineTypes == {"generic", "mass", "custom"}
Construct(type, assembly, packaging, quality, strategy) ==
    CASE type = "mass" -> construct_mass_production_line(assembly, packaging, quality, strategy)
      [] type = "custom" -> construct_custom_batch_line(assembly, packaging, quality, strategy)
      [] OTHER -> construct_production_line(assembly, packaging, quality, strategy)

(***************************************************************************)
(* patterns/behavioral/command_pattern.py                                  *)
(***************************************************************************)
\* StartProductionCommand(line) / StopProductionCommand(line) as registered
Command(name, kind, l) ==
    [name |-> name, kind |-> kind, line |-> l, previous_status |-> "None"]

\* The outcome of a command: Outcome plus the command objects.
CmdOutcome(o, cmds) ==
    [lines |-> o.lines, mc |-> o.mc, val |-> o.val, exc |-> o.exc, commands |-> cmds]

\* StartProductionCommand.execute / StopProductionCommand.execute of command c
CommandExecute(lns, mc, cmds, c) ==
    LET snap == [cmds EXCEPT ![c].previous_status = lns[cmds[c].line].status]
    IN  IF cmds[c].kind = "start"
        THEN CmdOutcome(LineStart(lns, mc, cmds[c].line), snap)
        ELSE CmdOutcome(LineStop(lns, mc, cmds[c].line), snap)

\* StartProductionCommand.undo / StopProductionCommand.undo of command c
CommandUndo(lns, mc, cmds, c) ==
    LET o == IF cmds[c].kind = "start" THEN LineStop(lns, mc, cmds[c].line)
                                       ELSE LineStart(lns, mc, cmds[c].line)
    IN  IF o.exc # "none" THEN CmdOutcome(o, cmds)
        ELSE CmdOutcome(Outcome([o.lines EXCEPT ![cmds[c].line].status = cmds[c].previous_status],
                                o.mc, TRUE, "none"), cmds)

\* ProductionStrategyContext.set_strategy: the strategy the context holds
\* after the call
set_strategy(context, new_strategy) == new_strategy

\* ChangeProductionStrategyCommand(context, new_strategy) as registered
ChangeCommand(name, new_strategy) ==
    [name |-> name, kind |-> "change", new_strategy |-> new_strategy,
     previous_strategy |-> "None"]

\* What a change-strategy command leaves: the command objects, the strategy of
\* the context, what it returned.
Changed(cmds, context, val) == [commands |-> cmds, context |-> context, val |-> val]

\* ChangeProductionStrategyCommand.execute of command c
ChangeExecute(cmds, c, context) ==
    Changed([cmds EXCEPT ![c].previous_strategy = context],
            set_strategy(context, cmds[c].new_strategy), TRUE)

\* an undo that leaves the context with the strategy it has
ChangeUndo_keeping(cmds, c, context) == Changed(cmds, context, TRUE)

\* ChangeProductionStrategyCommand.undo of command c
ChangeUndo(cmds, c, context) ==
    Changed(cmds, set_strategy(context, cmds[c].previous_strategy), TRUE)

\* the first registered command with this name, 0 when there is none
FirstNamed(cmds, name) ==
    IF \E i \in 1..Len(cmds) : cmds[i].name = name
    THEN CHOOSE i \in 1..Len(cmds) :
            cmds[i].name = name /\ \A j \in 1..(i-1) : cmds[j].name # name
    ELSE 0

\* an invoker that logs every command it finds, whatever the command returns
execute_command_always(lns, mc, cmds, hist, name) ==
    LET c == FirstNamed(cmds, name) IN
    IF c = 0
    THEN [out |-> CmdOutcome(Outcome(lns, mc, FALSE, "none"), cmds), history |-> hist]
    ELSE [out |-> CommandExecute(lns, mc, cmds, c), history |-> Append(hist, c)]

\* CommandInvoker.execute_command: the invoker's history after the call is
\* hist with the command appended when it reported success.
execute_command(lns, mc, cmds, hist, name) ==
    LET c == FirstNamed(cmds, name) IN
    IF c = 0
    THEN [out |-> CmdOutcome(Outcome(lns, mc, FALSE, "none"), cmds), history |-> hist]
    ELSE LET o == CommandExecute(lns, mc, cmds, c)
         IN  [out |-> o,
              history |-> IF o.exc = "none" /\ o.val THEN Append(hist, c) ELSE hist]

\* an invoker that undoes the oldest entry of its history
undo_last_command_oldest(lns, mc, cmds, hist) ==
    IF hist = <<>>
    THEN [out |-> CmdOutcome(Outcome(lns, mc, FALSE, "none"), cmds), history |-> hist]
    ELSE [out |-> CommandUndo(lns, mc, cmds, hist[1]), history |-> Tail(hist)]

\* CommandInvoker.undo_last_command
undo_last_command(lns, mc, cmds, hist) ==
    IF hist = <<>>
    THEN [out |-> CmdOutcome(Outcome(lns, mc, FALSE, "none"), cmds), history |-> hist]
    ELSE [out |-> CommandUndo(lns, mc, cmds, hist[Len(hist)]),
          history |-> SubSeq(hist, 1, Len(hist) - 1)]

\* the status of the line of each logged execution as it was when the
\* execution began (command.previous_status at the time of its execute):
\* extended when the invoker appends to its history, cut when it pops
Logged(snaps, lns, cmds, hist, hist2) ==
    IF Len(hist2) > Len(hist)
    THEN Append(snaps, lns[cmds[hist2[Len(hist2)]].line].status)
    ELSE IF Len(hist2) < Len(hist) THEN SubSeq(snaps, 1, Len(snaps) - 1)
    ELSE snaps

CommandNames == {"start_production", "stop_production"}

\* invoker.execute_command(name), as main.py calls it: the first command
\* registered under the name is a command on a line or a change of strategy
ExecuteCommand(name) ==
    LET c == FirstNamed(commands, name)
        r == execute_command(lines, MachineRec, commands, history, name)
        x == ChangeExecute(commands, c, strategy_context)
    IN
    /\ Len(history) < MaxHistory
    /\ IF c # 0 /\ commands[c].kind = "change"
       THEN /\ commands' = x.commands
            /\ strategy_context' = x.context
            /\ history' = IF x.val THEN Append(history, c) ELSE history
            /\ snapshots' = IF x.val THEN Append(snapshots, strategy_context) ELSE snapshots
            /\ notes' = <<>>
            /\ ret' = Ret("execute_command", name, x.val)
            /\ UNCHANGED <<state, perf, lines>>
       ELSE /\ SetMachine(r.out.mc)
            /\ lines' = r.out.lines
            /\ commands' = r.out.commands
            /\ history' = r.history
            /\ snapshots' = Logged(snapshots, lines, commands, history, r.history)
            /\ ret' = [op |-> "execute_command", target |-> name, arg |-> 0,
                       val |-> r.out.val, exc |-> r.out.exc]
            /\ UNCHANGED strategy_context
    /\ UNCHANGED <<observers, ledgerVars, calls, dashVars, registry, active_production,
                   violations, safety_results, strategyVars, instance>>

\* invoker.undo_last_command(); the command it popped is kept with the
\* outcome (0 when the history was empty)
UndoLast ==
    LET r == undo_last_command(lines, MachineRec, commands, history)
        c == history[Len(history)]
        x == ChangeUndo(commands, c, strategy_context)
    IN
    /\ IF history # <<>> /\ commands[c].kind = "change"
       THEN /\ commands' = x.commands
            /\ strategy_context' = x.context
            /\ history' = SubSeq(history, 1, Len(history) - 1)
            /\ snapshots' = SubSeq(snapshots, 1, Len(snapshots) - 1)
            /\ notes' = <<>>
            /\ ret' = RetArg("undo_last_command", "invoker", c, x.val)
            /\ UNCHANGED <<state, perf, lines>>
       ELSE /\ SetMachine(r.out.mc)
            /\ lines' = r.out.lines
            /\ commands' = r.out.commands
            /\ history' = r.history
            /\ snapshots' = Logged(snapshots, lines, commands, history, r.history)
            /\ ret' = [op |-> "undo_last_command", target |-> "invoker",
                       arg |-> IF history = <<>> THEN 0 ELSE history[Len(history)],
                       val |-> r.out.val, exc |-> r.out.exc]
            /\ UNCHANGED strategy_context
    /\ UNCHANGED <<observers, ledgerVars, calls, dashVars, registry, active_production,
                   violations, safety_results, strategyVars, instance>>

\* machine.set_state(MachineState.ERROR), the malfunction of main.py
SetError(m) ==
    /\ SetMachine(set_state(MachineRec, m, "ERROR"))
    /\ ret' = Ret("set_state", m, TRUE)
    /\ UNCHANGED <<observers, lineVars, ledgerVars, calls, dashVars, ctlVars>>

\* machine.start_operation() called on the machine itself
StartOperation(m) ==
    /\ SetMachine(start_operation(MachineRec, m))
    /\ ret' = Ret("start_operation", m, TRUE)
    /\ UNCHANGED <<observers, lineVars, ledgerVars, calls, dashVars, ctlVars>>

\* machine.stop_operation() called on the machine itself
StopOperation(m) ==
    /\ SetMachine(stop_operation(MachineRec, m))
    /\ ret' = Ret("stop_operation", m, TRUE)
    /\ UNCHANGED <<observers, lineVars, ledgerVars, calls, dashVars, ctlVars>>

\* ProductionDirector.construct_*(ProductionLineBuilder(), ...) as main.py
\* and the dashboard call it
ConstructLine(type, assembly, packaging, quality, strategy) ==
    LET r == Construct(type, assembly, packaging, quality, strategy) IN
    /\ Len(lines) < MaxLines
    /\ lines' = IF r.exc = "none" THEN Append(lines, r.line) ELSE lines
    /\ ret' = [op |-> "construct", target |-> type, arg |-> Len(assembly),
               val |-> r.exc = "none", exc |-> r.exc]
    /\ notes' = <<>>
    /\ UNCHANGED <<machineVars, commands, history, snapshots, ledgerVars, calls, dashVars,
                   ctlVars>>

\* production_line.start() called on the line itself
LineStartCall(l) ==
    LET o == LineStart(lines, MachineRec, l) IN
    /\ SetMachine(o.mc)
    /\ lines' = o.lines
    /\ ret' = [op |-> "start", target |-> "line", arg |-> l, val |-> o.val, exc |-> o.exc]
    /\ UNCHANGED <<observers, commands, history, snapshots, ledgerVars, calls, dashVars,
                   ctlVars>>

\* production_line.stop() called on the line itself
LineStopCall(l) ==
    LET o == LineStop(lines, MachineRec, l) IN
    /\ SetMachine(o.mc)
    /\ lines' = o.lines
    /\ ret' = [op |-> "stop", target |-> "line", arg |-> l, val |-> o.val, exc |-> o.exc]
    /\ UNCHANGED <<observers, commands, history, snapshots, ledgerVars, calls, dashVars,
                   ctlVars>>

(***************************************************************************)
(* systems/inventory_system.py and CentralControlSystem.update_inventory   *)
(***************************************************************************)
\* an empty dict
NoItems == [x \in {} |-> 0]

\* d[k] = v on a dict
Put(d, k, v) == [x \in DOMAIN d \cup {k} |-> IF x = k THEN v ELSE d[x]]

\* del d[k]
Del(d, k) == [x \in DOMAIN d \ {k} |-> d[x]]

\* The ledger an operation works on, as one value.
LedgerRec ==
    [inventory |-> inventory, reorder_levels |-> reorder_levels,
     on_order |-> on_order, cc_inventory |-> cc_inventory, timers |-> timers]

SetLedger(L) ==
    /\ inventory' = L.inventory
    /\ reorder_levels' = L.reorder_levels
    /\ on_order' = L.on_order
    /\ cc_inventory' = L.cc_inventory
    /\ timers' = L.timers

\* CentralControlSystem.update_inventory
update_inventory(L, item, quantity) ==
    [L EXCEPT !.cc_inventory =
        IF item \in DOMAIN @ THEN Put(@, item, @[item] + quantity)
                             ELSE Put(@, item, quantity)]

\* CentralControlSystem.get_inventory_level
get_inventory_level(L, item) ==
    IF item \in DOMAIN L.cc_inventory THEN L.cc_inventory[item] ELSE 0

\* InventorySystem.add_item (the supplier is only printed)
add_item(L, item, quantity, level) ==
    update_inventory([L EXCEPT !.inventory = Put(@, item, quantity),
                               !.reorder_levels = Put(@, item, level)],
                     item, quantity)

\* InventorySystem.get_item_quantity
get_item_quantity(L, item) ==
    IF item \in DOMAIN L.inventory THEN L.inventory[item] ELSE 0

\* remove_item without the test of the quantity
RemoveAllowed_known(L, item, quantity) == item \in DOMAIN L.inventory

\* remove_item, lines 29-35: the two tests that make it return False
RemoveAllowed(L, item, quantity) ==
    /\ item \in DOMAIN L.inventory
    /\ ~(L.inventory[item] < quantity)

\* remove_item, line 37
Decrement(L, item, quantity) ==
    [L EXCEPT !.inventory[item] = @ - quantity]

\* _check_reorder_level, lines 68-74: the test
NeedsReorder(L, item) ==
    /\ item \in DOMAIN L.reorder_levels
    /\ L.inventory[item] <= L.reorder_levels[item]
    /\ item \notin DOMAIN L.on_order

\* InventorySystem._place_order: the quantity on order is fixed here, and
\* handed to the timer that will deliver it
place_order(L, item) ==
    LET order_quantity == L.reorder_levels[item] * 2 IN
    [L EXCEPT !.on_order = Put(@, item, order_quantity),
              !.timers = @ (+) SetToBag({<<item, order_quantity>>})]

\* InventorySystem._check_reorder_level
check_reorder_level(L, item) ==
    IF NeedsReorder(L, item) THEN place_order(L, item) ELSE L

\* What a ledger call leaves and returns.
Ledgered(L, val) == [L |-> L, val |-> val]

\* InventorySystem.remove_item, run without interruption
remove_item(L, item, quantity) ==
    IF ~RemoveAllowed(L, item, quantity) THEN Ledgered(L, FALSE)
    ELSE Ledgered(update_inventory(check_reorder_level(Decrement(L, item, quantity), item),
                                   item, -quantity), TRUE)

\* InventorySystem.set_reorder_level
set_reorder_level(L, item, level) ==
    IF item \notin DOMAIN L.inventory THEN Ledgered(L, FALSE)
    ELSE Ledgered(check_reorder_level([L EXCEPT !.reorder_levels = Put(@, item, level)], item),
                  TRUE)

\* _receive_order that recomputes the delivery from the reorder level of the
\* moment instead of using the quantity the timer carries
receive_order_recomputed(L, item, quantity) ==
    IF item \in DOMAIN L.inventory
    THEN LET delivered == 2 * L.reorder_levels[item]
             L1 == update_inventory([L EXCEPT !.inventory[item] = @ + delivered],
                                    item, delivered)
         IN  IF item \in DOMAIN L1.on_order
             THEN [L1 EXCEPT !.on_order = Del(@, item)]
             ELSE L1
    ELSE L

\* InventorySystem._receive_order, as the timer calls it with the quantity
\* it was given when the order was placed
receive_order(L, item, quantity) ==
    IF item \in DOMAIN L.inventory
    THEN LET L1 == update_inventory([L EXCEPT !.inventory[item] = @ + quantity],
                                    item, quantity)
         IN  IF item \in DOMAIN L1.on_order
             THEN [L1 EXCEPT !.on_order = Del(@, item)]
             ELSE L1
    ELSE L

\* the threads that call remove_item: the consumption thread and the Tk thread
Callers == {"consumer", "tk"}
\* a thread that is not inside remove_item
NotCalling == [pc |-> "idle", item |-> "none", quantity |-> 0]
NoCalls == [t \in Callers |-> NotCalling]

\* inventory_system.add_item(...) from the Tk thread
AddItem(item, quantity, level) ==
    /\ item \in DOMAIN inventory => cc_inventory[item] <= MaxStock
    /\ SetLedger(add_item(LedgerRec, item, quantity, level))
    /\ ret' = RetArg("add_item", item, quantity, TRUE)
    /\ notes' = <<>>
    /\ UNCHANGED <<machineVars, lineVars, calls, dashVars, ctlVars>>

\* inventory_system.remove_item(item, quantity), not interleaved with any
\* other call
RemoveItem(item, quantity) ==
    LET r == remove_item(LedgerRec, item, quantity) IN
    /\ SetLedger(r.L)
    /\ ret' = RetArg("remove_item", item, quantity, r.val)
    /\ notes' = <<>>
    /\ UNCHANGED <<machineVars, lineVars, calls, dashVars, ctlVars>>

\* inventory_system.set_reorder_level(item, level)
SetReorderLevel(item, level) ==
    LET r == set_reorder_level(LedgerRec, item, level) IN
    /\ SetLedger(r.L)
    /\ ret' = RetArg("set_reorder_level", item, level, r.val)
    /\ notes' = <<>>
    /\ UNCHANGED <<machineVars, lineVars, calls, dashVars, ctlVars>>

\* a pending threading.Timer fires and runs _receive_order(item, quantity)
TimerFires(item, quantity) ==
    /\ BagIn(<<item, quantity>>, timers)
    /\ SetLedger([receive_order(LedgerRec, item, quantity) EXCEPT
                    !.timers = @ (-) SetToBag({<<item, quantity>>})])
    /\ ret' = RetArg("_receive_order", item, quantity, TRUE)
    /\ notes' = <<>>
    /\ UNCHANGED <<machineVars, lineVars, calls, dashVars, ctlVars>>

(***************************************************************************)
(* remove_item statement by statement, as a thread runs it next to others  *)
(***************************************************************************)
\* thread t moves on inside its call
Moves(t, pc) == calls' = [calls EXCEPT ![t].pc = pc]

\* lines 29-35: the call starts; it returns False at once or goes on
RemoveEnter(t, item, quantity) ==
    /\ calls[t].pc = "idle"
    /\ IF RemoveAllowed(LedgerRec, item, quantity)
       THEN /\ calls' = [calls EXCEPT ![t] =
                    [pc |-> "decrement", item |-> item, quantity |-> quantity]]
            /\ ret' = RetArg("remove_item:enter", item, quantity, TRUE)
       ELSE /\ calls' = calls
            /\ ret' = RetArg("remove_item", item, quantity, FALSE)
    /\ notes' = <<>>
    /\ UNCHANGED <<machineVars, lineVars, ledgerVars, dashVars, ctlVars>>

\* line 37
RemoveDecrement(t) ==
    /\ calls[t].pc = "decrement"
    /\ SetLedger(Decrement(LedgerRec, calls[t].item, calls[t].quantity))
    /\ Moves(t, "check_reorder")
    /\ ret' = RetArg("remove_item:decrement", calls[t].item, calls[t].quantity, TRUE)
    /\ notes' = <<>>
    /\ UNCHANGED <<machineVars, lineVars, dashVars, ctlVars>>

\* line 41 into _check_reorder_level, lines 68-74
RemoveCheckReorder(t) ==
    /\ calls[t].pc = "check_reorder"
    /\ Moves(t, IF NeedsReorder(LedgerRec, calls[t].item) THEN "place_order"
                                                          ELSE "update_central")
    /\ ret' = RetArg("remove_item:check_reorder", calls[t].item, calls[t].quantity, TRUE)
    /\ notes' = <<>>
    /\ UNCHANGED <<machineVars, lineVars, ledgerVars, dashVars, ctlVars>>

\* line 76 into _place_order
RemovePlaceOrder(t) ==
    /\ calls[t].pc = "place_order"
    /\ SetLedger(place_order(LedgerRec, calls[t].item))
    /\ Moves(t, "update_central")
    /\ ret' = RetArg("remove_item:place_order", calls[t].item, calls[t].quantity, TRUE)
    /\ notes' = <<>>
    /\ UNCHANGED <<machineVars, lineVars, dashVars, ctlVars>>

\* lines 44-45: the mirror is updated and the call returns True
RemoveUpdateCentral(t) ==
    /\ calls[t].pc = "update_central"
    /\ SetLedger(update_inventory(LedgerRec, calls[t].item, -calls[t].quantity))
    /\ calls' = [calls EXCEPT ![t] = NotCalling]
    /\ ret' = RetArg("remove_item", calls[t].item, calls[t].quantity, TRUE)
    /\ notes' = <<>>
    /\ UNCHANGED <<machineVars, lineVars, dashVars, ctlVars>>

(***************************************************************************)
(* dashboard.py: start, stop, emergency shutdown, the consumption thread   *)
(***************************************************************************)
\* the strategy types of the dashboard's radio buttons
StrategyTypes == {"mass", "custom", "ondemand"}

\* CentralControlSystem.get_all_machines: the registered machines in the
\* order initialize_default_system registered them
get_all_machines == <<"AR001", "PR001", "QC001">>

\* machine.__class__.__name__ of the machines the factory made
ClassName ==
    [AR001 |-> "AssemblyRobot", PR001 |-> "PackagingRobot", QC001 |-> "QualityControlBot"]

\* [m for m in all_machines if m.__class__.__name__ == name]
OfClass(name) == SelectSeq(get_all_machines, LAMBDA m : ClassName[m] = name)

\* _start_production: machines_to_start of each strategy type
MachinesToStart(strategy_type) ==
    CASE strategy_type = "mass" ->
            OfClass("AssemblyRobot") \o OfClass("PackagingRobot") \o OfClass("QualityControlBot")
      [] strategy_type = "custom" ->
            OfClass("AssemblyRobot") \o OfClass("QualityControlBot")
      [] OTHER -> OfClass("AssemblyRobot")

\* _check_inventory: required
Required == [mass |-> 30, custom |-> 20, ondemand |-> 10]

\* _consume_inventory: consumption_rates
ConsumptionRates == [mass |-> 3, custom |-> 2, ondemand |-> 1]

\* an inventory test that asks only for some stock of each material
check_inventory_positive(L, strategy_type) ==
    /\ get_item_quantity(L, "raw_material_a") >= 1
    /\ get_item_quantity(L, "raw_material_b") >= 1
    /\ get_item_quantity(L, "raw_material_c") >= 1

\* SynthCorpDashboard._check_inventory
check_inventory(L, strategy_type) ==
    /\ get_item_quantity(L, "raw_material_a") >= Required[strategy_type]
    /\ get_item_quantity(L, "raw_material_b") >= Required[strategy_type]
    /\ get_item_quantity(L, "raw_material_c") >= Required[strategy_type]

\* the Tk thread between two handlers
TkIdle == [pc |-> "idle", strategy_type |-> "none"]

\* a consumption thread as threading.Thread(...).start() creates it
Thread(strategy_type) == [pc |-> "test", strategy_type |-> strategy_type]

\* the positions in which a consumption thread is about to call remove_item
RemovePcs == {"remove_a", "remove_b", "remove_c"}

\* the item removed at each of them, and the position that follows
RemovedAt ==
    [remove_a |-> "raw_material_a", remove_b |-> "raw_material_b",
     remove_c |-> "raw_material_c"]
AfterRemove == [remove_a |-> "remove_b", remove_b |-> "remove_c", remove_c |-> "check"]

\* the consumption threads that have not returned
Alive == {t \in DOMAIN loops : loops[t].pc # "done"}

RECURSIVE ForceIdleAll(_, _)
\* _stop_production: for machine in get_all_machines(): stop_operation();
\* set_state(IDLE)
ForceIdleAll(mc, ms) ==
    IF ms = <<>> THEN mc
    ELSE ForceIdleAll(set_state(stop_operation(mc, Head(ms)), Head(ms), "IDLE"), Tail(ms))

RECURSIVE SetIdleAll(_, _)
\* _emergency_shutdown: for machine in get_all_machines(): set_state(IDLE)
SetIdleAll(mc, ms) ==
    IF ms = <<>> THEN mc
    ELSE SetIdleAll(set_state(mc, Head(ms), "IDLE"), Tail(ms))

\* _start_production, lines 550-629: the inventory test, the line built by
\* the director's general constructor (which runs for every strategy type,
\* after the constructor of the type), the machines started, the flag set and
\* the consumption thread started
StartLaunch(strategy_type) ==
    /\ tk.pc = "idle"
    /\ Len(loops) < MaxLoops
    /\ IF ~check_inventory(LedgerRec, strategy_type)
       THEN /\ ret' = Ret("_start_production", strategy_type, FALSE)
            /\ notes' = <<>>
            /\ UNCHANGED <<machineVars, lineVars, dashVars>>
       ELSE /\ lines' = Append(lines, ProductionLine(MachinesToStart(strategy_type),
                                                      <<>>, <<>>, strategy_type))
            /\ current_production' = Len(lines) + 1
            /\ SetMachine(StartAll(MachineRec, MachinesToStart(strategy_type)))
            /\ consumption_active' = TRUE
            /\ loops' = Append(loops, Thread(strategy_type))
            /\ tk' = [pc |-> "start_command", strategy_type |-> strategy_type]
            /\ ret' = Ret("_start_production:thread", strategy_type, TRUE)
            /\ UNCHANGED <<observers, commands, history, snapshots, stop_returned, ticks>>
    /\ UNCHANGED <<ledgerVars, calls, ctlVars>>

\* _start_production, lines 632-638: the start command of the new line is
\* registered and "start_production" is executed
StartCommand ==
    /\ tk.pc = "start_command"
    /\ LET cmds == Append(commands, Command("start_production", "start", current_production))
           r == execute_command(lines, MachineRec, cmds, history, "start_production")
       IN  /\ SetMachine(r.out.mc)
           /\ lines' = r.out.lines
           /\ commands' = r.out.commands
           /\ history' = r.history
           /\ snapshots' = Logged(snapshots, lines, cmds, history, r.history)
           /\ ret' = [op |-> "_start_production", target |-> tk.strategy_type, arg |-> 0,
                      val |-> r.out.val, exc |-> r.out.exc]
    /\ tk' = TkIdle
    /\ UNCHANGED <<observers, ledgerVars, calls, consumption_active, current_production,
                   loops, stop_returned, ticks, ctlVars>>

\* SynthCorpDashboard._stop_production from line 694 on: every registered
\* machine forced idle, "stop_production" executed
stop_production_rest(lns, mc, cmds, hist) ==
    execute_command(lns, ForceIdleAll(mc, get_all_machines), cmds, hist, "stop_production")

\* SynthCorpDashboard._stop_production on the Tk thread: the flag cleared,
\* then the rest, then its return
StopProduction ==
    /\ tk.pc = "idle"
    /\ consumption_active' = FALSE
    /\ LET r == stop_production_rest(lines, MachineRec, commands, history)
       IN  /\ SetMachine(r.out.mc)
           /\ lines' = r.out.lines
           /\ commands' = r.out.commands
           /\ history' = r.history
           /\ snapshots' = Logged(snapshots, lines, commands, history, r.history)
    /\ stop_returned' = stop_returned \cup Alive
    /\ ret' = Ret("_stop_production", "tk", TRUE)
    /\ UNCHANGED <<observers, ledgerVars, calls, current_production, loops, tk, ticks, ctlVars>>

\* SynthCorpDashboard._emergency_shutdown on the Tk thread (the question
\* answered with yes): the flag cleared, central_control.emergency_shutdown(),
\* then every machine set idle again
EmergencyShutdown ==
    /\ tk.pc = "idle"
    /\ consumption_active' = FALSE
    /\ SetMachine(SetIdleAll(ForceIdleAll(MachineRec, get_all_machines), get_all_machines))
    /\ stop_returned' = stop_returned \cup Alive
    /\ ret' = Ret("_emergency_shutdown", "tk", TRUE)
    /\ UNCHANGED <<observers, lineVars, ledgerVars, calls, current_production, loops, tk,
                   ticks, ctlVars>>

\* _consume_inventory, line 666: the test of the while loop (after the
\* time.sleep of the previous round, if any)
LoopTest(t) ==
    /\ loops[t].pc = "test"
    /\ IF consumption_active
       THEN /\ ticks < MaxTicks
            /\ loops' = [loops EXCEPT ![t].pc = "remove_a"]
            /\ ticks' = ticks + 1
       ELSE /\ loops' = [loops EXCEPT ![t].pc = "done"]
            /\ ticks' = ticks
    /\ ret' = RetArg("_consume_inventory:while", "consumer", t, consumption_active)
    /\ notes' = <<>>
    /\ UNCHANGED <<machineVars, lineVars, ledgerVars, calls, consumption_active,
                   current_production, tk, stop_returned, ctlVars>>

\* _consume_inventory, lines 669-671: one of the three remove_item calls
LoopRemove(t) ==
    /\ loops[t].pc \in RemovePcs
    /\ LET r == remove_item(LedgerRec, RemovedAt[loops[t].pc],
                            ConsumptionRates[loops[t].strategy_type])
       IN  /\ SetLedger(r.L)
           /\ ret' = RetArg("_consume_inventory:remove_item", RemovedAt[loops[t].pc], t, r.val)
    /\ loops' = [loops EXCEPT ![t].pc = AfterRemove[loops[t].pc]]
    /\ notes' = <<>>
    /\ UNCHANGED <<machineVars, lineVars, calls, consumption_active, current_production,
                   tk, stop_returned, ticks, ctlVars>>

\* _consume_inventory, lines 677-682: the inventory test after the removals;
\* on depletion the thread itself runs _stop_production and leaves the loop
LoopCheck(t) ==
    /\ loops[t].pc = "check"
    /\ IF ~check_inventory(LedgerRec, loops[t].strategy_type)
       THEN LET r == stop_production_rest(lines, MachineRec, commands, history)
            IN  /\ consumption_active' = FALSE
                /\ SetMachine(r.out.mc)
                /\ lines' = r.out.lines
                /\ commands' = r.out.commands
                /\ history' = r.history
                /\ snapshots' = Logged(snapshots, lines, commands, history, r.history)
                /\ loops' = [loops EXCEPT ![t].pc = "done"]
                /\ stop_returned' = stop_returned \cup Alive
                /\ ret' = RetArg("_consume_inventory:depleted", "consumer", t, TRUE)
       ELSE /\ loops' = [loops EXCEPT ![t].pc = "test"]
            /\ ret' = RetArg("_consume_inventory:sleep", "consumer", t, TRUE)
            /\ notes' = <<>>
            /\ UNCHANGED <<state, perf, lineVars, consumption_active, stop_returned>>
    /\ UNCHANGED <<observers, ledgerVars, calls, current_production, tk, ticks, ctlVars>>

(***************************************************************************)
(* patterns/behavioral/strategy_pattern.py: MassProductionStrategy         *)
(***************************************************************************)
\* x // y of Python for x >= 0 and y > 0
FloorDiv(x, y) == x \div y

\* order_quantity * 1.2 and order_quantity * 0.8: the amounts of material are
\* kept in tenths of a unit, the rounding of the floating-point product left
\* aside
TimesOnePointTwo(order_quantity) == order_quantity * 12
TimesPointEight(order_quantity) == order_quantity * 8

\* a strategy that counts the full batches only
calculate_resource_requirements_floor(size, order_quantity) ==
    LET batches == FloorDiv(order_quantity, size) IN
    [order_quantity |-> order_quantity,
     raw_materials |-> [material_a |-> TimesOnePointTwo(order_quantity),
                        material_b |-> TimesPointEight(order_quantity)],
     machine_time |-> [assembly |-> batches * 4, packaging |-> batches * 2],
     estimated_completion_time |-> batches * 8]

\* MassProductionStrategy.calculate_resource_requirements; the order quantity
\* is kept with what it returns
calculate_resource_requirements(size, order_quantity) ==
    LET batches == FloorDiv(order_quantity + size - 1, size) IN
    [order_quantity |-> order_quantity,
     raw_materials |-> [material_a |-> TimesOnePointTwo(order_quantity),
                        material_b |-> TimesPointEight(order_quantity)],
     machine_time |-> [assembly |-> batches * 4, packaging |-> batches * 2],
     estimated_completion_time |-> batches * 8]

\* no call made yet
NoRequirements ==
    [order_quantity |-> 0,
     raw_materials |-> [material_a |-> 0, material_b |-> 0],
     machine_time |-> [assembly |-> 0, packaging |-> 0],
     estimated_completion_time |-> 0]

\* mass_strategy.calculate_resource_requirements(order_quantity)
CalculateRequirements(order_quantity) ==
    /\ requirements' = calculate_resource_requirements(batch_size, order_quantity)
    /\ ret' = RetArg("calculate_resource_requirements", "mass_strategy", order_quantity, TRUE)
    /\ notes' = <<>>
    /\ UNCHANGED <<machineVars, lineVars, ledgerVars, calls, dashVars, registry,
                   active_production, violations, safety_results, strategy_context,
                   batch_size, instance>>

(***************************************************************************)
(* patterns/creational/singleton_pattern.py: the registry of machines,     *)
(* emergency shutdown; facade_pattern.py in front of it                    *)
(***************************************************************************)
\* the ids typed into the dashboard's "add machine" form
MachineIds == {"AR001", "PR001"}

\* the ids that are keys of _machines
RegisteredIds(reg) == {reg[i].machine_id : i \in DOMAIN reg}

\* CentralControlSystem.register_machine: self._machines[machine_id] = machine
\* (a dict keeps the place of a key that is assigned again)
register_machine(reg, machine_id, m) ==
    IF machine_id \in RegisteredIds(reg)
    THEN [i \in DOMAIN reg |->
            IF reg[i].machine_id = machine_id
            THEN [machine_id |-> machine_id, machine |-> m] ELSE reg[i]]
    ELSE Append(reg, [machine_id |-> machine_id, machine |-> m])

\* CentralControlSystem.get_machine: self._machines.get(machine_id)
get_machine(reg, machine_id) ==
    IF machine_id \in RegisteredIds(reg)
    THEN (CHOOSE r \in {reg[i] : i \in DOMAIN reg} : r.machine_id = machine_id).machine
    ELSE "None"

\* self._machines.values()
machines_values(reg) == [i \in DOMAIN reg |-> reg[i].machine]

\* an emergency shutdown that goes through the guarded transition table
emergency_shutdown_guarded(reg, mc, active) ==
    [mc |-> RequestStopAll(mc, machines_values(reg)), active_production |-> "None"]

\* CentralControlSystem.emergency_shutdown: every registered machine stopped
\* and set idle, the active production (if any) stopped and forgotten
emergency_shutdown(reg, mc, active) ==
    [mc |-> ForceIdleAll(mc, machines_values(reg)), active_production |-> "None"]

\* CentralControlSystem._production_orders: nothing in the repository calls
\* add_production_order
production_orders == <<>>

\* the machines of a registry that are in the error state
InError(reg) == {i \in DOMAIN reg : state[reg[i].machine] = "ERROR"}

\* a machine made by the factory with the id typed in, then
\* central_control.register_machine(machine) (dashboard._add_machine)
RegisterMachine(machine_id, m) ==
    /\ m \notin {registry[i].machine : i \in DOMAIN registry}
    /\ registry' = register_machine(registry, machine_id, m)
    /\ ret' = Ret("register_machine", machine_id, TRUE)
    /\ notes' = <<>>
    /\ UNCHANGED <<machineVars, lineVars, ledgerVars, calls, dashVars,
                   active_production, violations, safety_results, strategy_context, strategyVars, instance>>

\* ManufacturingSystemFacade.trigger_emergency_shutdown
TriggerEmergencyShutdown ==
    LET r == emergency_shutdown(registry, MachineRec, active_production) IN
    /\ SetMachine(r.mc)
    /\ active_production' = r.active_production
    /\ ret' = RetArg("emergency_shutdown", "central_control",
                     Cardinality(InError(registry)), TRUE)
    /\ UNCHANGED <<observers, lineVars, ledgerVars, calls, dashVars, registry, violations,
                   safety_results, strategy_context, strategyVars, instance>>

\* ManufacturingSystemFacade.start_production_order: the order is looked up
\* in _production_orders, and _active_production is set when it is found
StartProductionOrder(order_id) ==
    /\ active_production' =
          IF \E i \in DOMAIN production_orders : production_orders[i] = order_id
          THEN order_id ELSE active_production
    /\ ret' = Ret("start_production", order_id,
                  \E i \in DOMAIN production_orders : production_orders[i] = order_id)
    /\ notes' = <<>>
    /\ UNCHANGED <<machineVars, lineVars, ledgerVars, calls, dashVars, registry, violations,
                   safety_results, strategy_context, strategyVars, instance>>

(***************************************************************************)
(* SafetyProtocol (systems/inventory_system.py), the two protocols of      *)
(* create_safety_protocols, CentralControlSystem.check_safety_protocols    *)
(***************************************************************************)
\* the protocols in the order add_safety_protocol received them
Protocols == <<"No machines in error state", "Critical inventory levels maintained">>

\* check_machine_states: no registered machine is in the error state
check_machine_states(reg, mc) ==
    \A i \in DOMAIN reg : mc.state[reg[i].machine] # "ERROR"

\* check_critical_inventory
check_critical_inventory(L) ==
    /\ get_item_quantity(L, "raw_material_a") > 5
    /\ get_item_quantity(L, "raw_material_b") > 5

\* protocol.condition_func() of each protocol
condition_func(reg, mc, L) ==
    <<check_machine_states(reg, mc), check_critical_inventory(L)>>

\* a check that counts every call
check_counting_calls(v, result) == v + 1

\* SafetyProtocol.check: the counter after a call whose predicate gave result
check(v, result) == IF ~result THEN v + 1 ELSE v

\* a control system that shuts the machines down when a protocol fails
on_violation_halting(reg, mc, results) ==
    IF \E i \in DOMAIN results : ~results[i]
    THEN ForceIdleAll(mc, machines_values(reg)) ELSE mc

\* check_safety_protocols, lines 101-102: a failed protocol is printed
on_violation(reg, mc, results) == mc

\* CentralControlSystem.check_safety_protocols: the (protocol, result) pairs
\* it returns, the counters and the machines it leaves
check_safety_protocols(reg, mc, L, v) ==
    LET results == condition_func(reg, mc, L) IN
    [results |-> [i \in DOMAIN Protocols |-> [protocol |-> i, passed |-> results[i]]],
     violations |-> [i \in DOMAIN Protocols |-> check(v[i], results[i])],
     mc |-> on_violation(reg, mc, results)]

\* central_control.check_safety_protocols(), as the facade and the
\* dashboard's update_safety_status call it
CheckSafety ==
    LET r == check_safety_protocols(registry, MachineRec, LedgerRec, violations) IN
    /\ \A i \in DOMAIN violations : violations[i] < MaxViolations
    /\ SetMachine(r.mc)
    /\ violations' = r.violations
    /\ safety_results' = r.results
    /\ ret' = Ret("check_safety_protocols", "central_control",
                  \A i \in DOMAIN r.results : r.results[i].passed)
    /\ UNCHANGED <<observers, lineVars, ledgerVars, calls, dashVars, registry,
                   active_production, strategy_context, strategyVars, instance>>

(***************************************************************************)
(* CentralControlSystem.__new__, get_instance and _initialize              *)
(***************************************************************************)
\* The class attribute and the fields of the object it refers to, as one value.
ControlRec ==
    [instance |-> instance, registry |-> registry,
     active_production |-> active_production, cc_inventory |-> cc_inventory,
     violations |-> violations]

SetControl(C) ==
    /\ instance' = C.instance
    /\ registry' = C.registry
    /\ active_production' = C.active_production
    /\ cc_inventory' = C.cc_inventory
    /\ violations' = C.violations

\* CentralControlSystem._initialize on the object of identity id: no
\* machines, no active production, no inventory, no safety protocols
initialize(id) ==
    [instance |-> id, registry |-> <<>>, active_production |-> "None",
     cc_inventory |-> NoItems, violations |-> <<>>]

\* a constructor that makes and initialises an object on every call
new_fresh(C) == initialize(C.instance + 1)

\* CentralControlSystem.__new__: the object is made and initialised only
\* while _instance is None (the class defines no __init__)
new(C) == IF C.instance = 0 THEN initialize(1) ELSE C

\* CentralControlSystem.get_instance
get_instance(C) == IF C.instance = 0 THEN new(C) ELSE C

\* CentralControlSystem(): the reference returned is in ret.arg
NewControlSystem ==
    /\ SetControl(new(ControlRec))
    /\ ret' = RetArg("CentralControlSystem", "cls", new(ControlRec).instance, TRUE)
    /\ notes' = <<>>
    /\ UNCHANGED <<machineVars, lineVars, inventory, reorder_levels, on_order, timers,
                   calls, dashVars, safety_results, strategy_context, strategyVars>>

\* CentralControlSystem.get_instance(): the reference returned is in ret.arg
GetInstance ==
    /\ SetControl(get_instance(ControlRec))
    /\ ret' = RetArg("get_instance", "cls", get_instance(ControlRec).instance, TRUE)
    /\ notes' = <<>>
    /\ UNCHANGED <<machineVars, lineVars, inventory, reorder_levels, on_order, timers,
                   calls, dashVars, safety_results, strategy_context, strategyVars>>

\* central_control.add_safety_protocol(protocol): a protocol with no
\* violations is appended to _safety_protocols
AddSafetyProtocol ==
    /\ Len(violations) < Len(Protocols)
    /\ violations' = Append(violations, 0)
    /\ ret' = RetArg("add_safety_protocol", "central_control", Len(violations) + 1, TRUE)
    /\ notes' = <<>>
    /\ UNCHANGED <<machineVars, lineVars, ledgerVars, calls, dashVars, registry,
                   active_production, safety_results, strategy_context, strategyVars,
                   instance>>

(***************************************************************************)
(* Initial state: machines as Machine.__init__ leaves them, observers as   *)
(* dashboard.initialize_default_system attaches them.                      *)
(***************************************************************************)
\* every machine as Machine.__init__ leaves it
AllIdle == [m \in Machines |-> "IDLE"]
\* the registry after the register_machine calls of initialize_default_system
DefaultRegistry ==
    <<[machine_id |-> "AR001", machine |-> "AR001"],
      [machine_id |-> "PR001", machine |-> "PR001"],
      [machine_id |-> "QC001", machine |-> "QC001"]>>
\* the counters of the two protocols create_safety_protocols adds
NoViolations == <<0, 0>>
NoMetrics == [m \in Machines |-> {}]
\* both observers attached to every machine, engineer first
DefaultObservers == [m \in Machines |-> <<"Person1", "Person2">>]

\* main.py: one mass-production line built by the director, its start and
\* stop commands registered with the invoker
MainLines == <<ProductionLine(<<"AR001">>, <<"PR001">>, <<"QC001">>, "mass")>>
MainCommands == <<Command("start_production", "start", 1),
                  Command("stop_production", "stop", 1)>>

(***************************************************************************)
(* SpecMachine: a machine driven through MachineStateContext only          *)
(***************************************************************************)
\* the machine under test: the handlers never look at another machine
Guarded == {"AR001"}

GuardedRequest == \E m \in Guarded, req \in Requests : HandleRequest(m, req)
AttachObserver == \E m \in Guarded, o \in Observers : attach_observer(m, o)
DetachObserver == \E m \in Guarded, o \in Observers : detach_observer(m, o)

NextMachine == GuardedRequest \/ AttachObserver \/ DetachObserver

InitMachine ==
    /\ state = AllIdle
    /\ perf = NoMetrics
    /\ observers = DefaultObservers
    /\ notes = <<>>
    /\ ret = Ret("init", "none", TRUE)
    /\ lines = <<>>
    /\ commands = <<>>
    /\ history = <<>>
    /\ snapshots = <<>>
    /\ inventory = NoItems
    /\ reorder_levels = NoItems
    /\ on_order = NoItems
    /\ cc_inventory = NoItems
    /\ timers = EmptyBag
    /\ calls = NoCalls
    /\ consumption_active = FALSE
    /\ current_production = 0
    /\ loops = <<>>
    /\ tk = TkIdle
    /\ stop_returned = {}
    /\ ticks = 0
    /\ registry = DefaultRegistry
    /\ active_production = "None"
    /\ violations = NoViolations
    /\ safety_results = <<>>
    /\ strategy_context = "MassProductionStrategy"
    /\ batch_size = 500
    /\ requirements = NoRequirements
    /\ instance = 1

SpecMachine == InitMachine /\ [][NextMachine]_vars

(***************************************************************************)
(* SpecLine: the line of main.py driven through the command invoker, its   *)
(* machines also driven one by one                                         *)
(***************************************************************************)
LineCommand == \E name \in CommandNames : ExecuteCommand(name)
LineUndo == UndoLast
\* the repair path of a machine: into maintenance, and back to idle
RepairRequests == {"handle_maintenance", "handle_stop"}

MachineRequest == \E m \in Machines, req \in RepairRequests : HandleRequest(m, req)
MachineError == \E m \in Machines : SetError(m)
MachineStart == \E m \in Machines : StartOperation(m)
MachineStop == \E m \in Machines : StopOperation(m)

NextLine ==
    \/ LineCommand
    \/ LineUndo
    \/ MachineRequest
    \/ MachineError
    \/ MachineStart
    \/ MachineStop

InitLine ==
    /\ state = AllIdle
    /\ perf = NoMetrics
    /\ observers = DefaultObservers
    /\ notes = <<>>
    /\ ret = Ret("init", "none", TRUE)
    /\ lines = MainLines
    /\ commands = MainCommands
    /\ history = <<>>
    /\ snapshots = <<>>
    /\ inventory = NoItems
    /\ reorder_levels = NoItems
    /\ on_order = NoItems
    /\ cc_inventory = NoItems
    /\ timers = EmptyBag
    /\ calls = NoCalls
    /\ consumption_active = FALSE
    /\ current_production = 0
    /\ loops = <<>>
    /\ tk = TkIdle
    /\ stop_returned = {}
    /\ ticks = 0
    /\ registry = DefaultRegistry
    /\ active_production = "None"
    /\ violations = NoViolations
    /\ safety_results = <<>>
    /\ strategy_context = "MassProductionStrategy"
    /\ batch_size = 500
    /\ requirements = NoRequirements
    /\ instance = 1

SpecLine == InitLine /\ [][NextLine]_vars

(***************************************************************************)
(* SpecLedger: one ledger, its calls made one after the other              *)
(***************************************************************************)
\* the items of the ledger under test
LedgerItems == {"raw_material_a"}
\* the ids remove_item is called with: raw_material_b is never added
AskedItems == {"raw_material_a", "raw_material_b"}
Quantities == 1..MaxQuantity
Levels == 1..MaxLevel
Amounts == 1..MaxAmount

LedgerAdd ==
    \E item \in LedgerItems, quantity \in Quantities, level \in Levels :
        AddItem(item, quantity, level)
LedgerRemove ==
    \E item \in AskedItems, quantity \in Amounts : RemoveItem(item, quantity)
LedgerSetLevel ==
    \E item \in LedgerItems, level \in Levels : SetReorderLevel(item, level)
LedgerReceive ==
    \E item \in LedgerItems, quantity \in 1..(2 * (MaxLevel + 1)) : TimerFires(item, quantity)

NextLedger == LedgerAdd \/ LedgerRemove \/ LedgerSetLevel \/ LedgerReceive

InitLedger ==
    /\ state = AllIdle
    /\ perf = NoMetrics
    /\ observers = DefaultObservers
    /\ notes = <<>>
    /\ ret = Ret("init", "none", TRUE)
    /\ lines = <<>>
    /\ commands = <<>>
    /\ history = <<>>
    /\ snapshots = <<>>
    /\ inventory = NoItems
    /\ reorder_levels = NoItems
    /\ on_order = NoItems
    /\ cc_inventory = NoItems
    /\ timers = EmptyBag
    /\ calls = NoCalls
    /\ consumption_active = FALSE
    /\ current_production = 0
    /\ loops = <<>>
    /\ tk = TkIdle
    /\ stop_returned = {}
    /\ ticks = 0
    /\ registry = DefaultRegistry
    /\ active_production = "None"
    /\ violations = NoViolations
    /\ safety_results = <<>>
    /\ strategy_context = "MassProductionStrategy"
    /\ batch_size = 500
    /\ requirements = NoRequirements
    /\ instance = 1

SpecLedger == InitLedger /\ [][NextLedger]_vars

(***************************************************************************)
(* SpecRace: the same ledger with remove_item called by the consumption    *)
(* thread and by the Tk thread at the same time, while timers fire         *)
(***************************************************************************)
\* the item both threads draw from
RaceItems == {"raw_material_a"}

RaceEnter ==
    \E t \in Callers, item \in RaceItems, quantity \in Amounts :
        /\ BagCardinality(timers) < MaxTimers
        /\ RemoveEnter(t, item, quantity)
RaceDecrement == \E t \in Callers : RemoveDecrement(t)
RaceCheckReorder == \E t \in Callers : RemoveCheckReorder(t)
RacePlaceOrder == \E t \in Callers : RemovePlaceOrder(t)
RaceUpdateCentral == \E t \in Callers : RemoveUpdateCentral(t)
RaceReceive ==
    \E item \in RaceItems, quantity \in 1..(2 * (MaxLevel + 1)) : TimerFires(item, quantity)

NextRace ==
    \/ RaceEnter
    \/ RaceDecrement
    \/ RaceCheckReorder
    \/ RacePlaceOrder
    \/ RaceUpdateCentral
    \/ RaceReceive

\* the ledger after one add_item of the item, nothing removed yet
InitRace ==
    /\ state = AllIdle
    /\ perf = NoMetrics
    /\ observers = DefaultObservers
    /\ notes = <<>>
    /\ ret = Ret("init", "none", TRUE)
    /\ lines = <<>>
    /\ commands = <<>>
    /\ history = <<>>
    /\ snapshots = <<>>
    /\ \E item \in RaceItems, quantity \in Quantities, level \in Levels :
          LET L == add_item([inventory |-> NoItems, reorder_levels |-> NoItems,
                             on_order |-> NoItems, cc_inventory |-> NoItems,
                             timers |-> EmptyBag], item, quantity, level)
          IN  /\ inventory = L.inventory
              /\ reorder_levels = L.reorder_levels
              /\ on_order = L.on_order
              /\ cc_inventory = L.cc_inventory
              /\ timers = L.timers
    /\ calls = NoCalls
    /\ consumption_active = FALSE
    /\ current_production = 0
    /\ loops = <<>>
    /\ tk = TkIdle
    /\ stop_returned = {}
    /\ ticks = 0
    /\ registry = DefaultRegistry
    /\ active_production = "None"
    /\ violations = NoViolations
    /\ safety_results = <<>>
    /\ strategy_context = "MassProductionStrategy"
    /\ batch_size = 500
    /\ requirements = NoRequirements
    /\ instance = 1

SpecRace == InitRace /\ [][NextRace]_vars

(***************************************************************************)
(* SpecDash: the dashboard: the Tk thread's start, stop and emergency      *)
(* handlers, the consumption threads, the replenishment timers             *)
(***************************************************************************)
\* the quantity every tracked material has been used down to by hand
DashQuantities == {21, 30}

\* initialize_default_system: the three add_item calls
DefaultLedger ==
    add_item(add_item(add_item(
        [inventory |-> NoItems, reorder_levels |-> NoItems, on_order |-> NoItems,
         cc_inventory |-> NoItems, timers |-> EmptyBag],
        "raw_material_a", 1000, 20), "raw_material_b", 700, 15), "raw_material_c", 500, 30)

\* _use_inventory_item on each material, leaving q units of each
UsedDownTo(q) ==
    remove_item(remove_item(remove_item(DefaultLedger,
        "raw_material_a", 1000 - q).L, "raw_material_b", 700 - q).L,
        "raw_material_c", 500 - q).L

DashStart == \E strategy_type \in StrategyTypes : StartLaunch(strategy_type)
DashStartCommand == StartCommand
DashStop == StopProduction
DashEmergency == EmergencyShutdown
ConsumerTest == \E t \in DOMAIN loops : LoopTest(t)
ConsumerRemove == \E t \in DOMAIN loops : LoopRemove(t)
ConsumerCheck == \E t \in DOMAIN loops : LoopCheck(t)
DashReceive ==
    \E item \in DOMAIN inventory, quantity \in {2 * reorder_levels[i] : i \in DOMAIN reorder_levels} :
        TimerFires(item, quantity)

NextDash ==
    \/ DashStart
    \/ DashStartCommand
    \/ DashStop
    \/ DashEmergency
    \/ ConsumerTest
    \/ ConsumerRemove
    \/ ConsumerCheck
    \/ DashReceive

InitDash ==
    /\ state = AllIdle
    /\ perf = NoMetrics
    /\ observers = DefaultObservers
    /\ notes = <<>>
    /\ ret = Ret("init", "none", TRUE)
    /\ lines = <<>>
    /\ commands = <<>>
    /\ history = <<>>
    /\ snapshots = <<>>
    /\ \E q \in DashQuantities :
          /\ inventory = UsedDownTo(q).inventory
          /\ reorder_levels = UsedDownTo(q).reorder_levels
          /\ on_order = UsedDownTo(q).on_order
          /\ cc_inventory = UsedDownTo(q).cc_inventory
          /\ timers = UsedDownTo(q).timers
    /\ calls = NoCalls
    /\ consumption_active = FALSE
    /\ current_production = 0
    /\ loops = <<>>
    /\ tk = TkIdle
    /\ stop_returned = {}
    /\ ticks = 0
    /\ registry = DefaultRegistry
    /\ active_production = "None"
    /\ violations = NoViolations
    /\ safety_results = <<>>
    /\ strategy_context = "MassProductionStrategy"
    /\ batch_size = 500
    /\ requirements = NoRequirements
    /\ instance = 1

SpecDash == InitDash /\ [][NextDash]_vars

(***************************************************************************)
(* SpecConsume: production started from the dashboard and its consumption  *)
(* threads, while the operator uses material by hand                       *)
(***************************************************************************)
\* the operator uses 20 units of raw_material_a (the Tk thread is free)
ConsumeUse == tk.pc = "idle" /\ RemoveItem("raw_material_a", 20)

NextConsume ==
    \/ DashStart
    \/ DashStartCommand
    \/ ConsumerTest
    \/ ConsumerRemove
    \/ ConsumerCheck
    \/ DashReceive
    \/ ConsumeUse

InitConsume ==
    /\ state = AllIdle
    /\ perf = NoMetrics
    /\ observers = DefaultObservers
    /\ notes = <<>>
    /\ ret = Ret("init", "none", TRUE)
    /\ lines = <<>>
    /\ commands = <<>>
    /\ history = <<>>
    /\ snapshots = <<>>
    /\ \E q \in DashQuantities :
          /\ inventory = UsedDownTo(q).inventory
          /\ reorder_levels = UsedDownTo(q).reorder_levels
          /\ on_order = UsedDownTo(q).on_order
          /\ cc_inventory = UsedDownTo(q).cc_inventory
          /\ timers = UsedDownTo(q).timers
    /\ calls = NoCalls
    /\ consumption_active = FALSE
    /\ current_production = 0
    /\ loops = <<>>
    /\ tk = TkIdle
    /\ stop_returned = {}
    /\ ticks = 0
    /\ registry = DefaultRegistry
    /\ active_production = "None"
    /\ violations = NoViolations
    /\ safety_results = <<>>
    /\ strategy_context = "MassProductionStrategy"
    /\ batch_size = 500
    /\ requirements = NoRequirements
    /\ instance = 1

SpecConsume == InitConsume /\ [][NextConsume]_vars

(***************************************************************************)
(* SpecOperator: production started and stopped from the dashboard, by the *)
(* operator or by depletion, while the operator starts machines by hand    *)
(***************************************************************************)
\* _start_selected_machine on the machine selected in the machines tab
OperatorStart == tk.pc = "idle" /\ \E m \in Machines : StartOperation(m)

NextOperator ==
    \/ DashStart
    \/ DashStartCommand
    \/ DashStop
    \/ ConsumerTest
    \/ ConsumerRemove
    \/ ConsumerCheck
    \/ OperatorStart

InitOperator ==
    /\ state = AllIdle
    /\ perf = NoMetrics
    /\ observers = DefaultObservers
    /\ notes = <<>>
    /\ ret = Ret("init", "none", TRUE)
    /\ lines = <<>>
    /\ commands = <<>>
    /\ history = <<>>
    /\ snapshots = <<>>
    /\ \E q \in DashQuantities :
          /\ inventory = UsedDownTo(q).inventory
          /\ reorder_levels = UsedDownTo(q).reorder_levels
          /\ on_order = UsedDownTo(q).on_order
          /\ cc_inventory = UsedDownTo(q).cc_inventory
          /\ timers = UsedDownTo(q).timers
    /\ calls = NoCalls
    /\ consumption_active = FALSE
    /\ current_production = 0
    /\ loops = <<>>
    /\ tk = TkIdle
    /\ stop_returned = {}
    /\ ticks = 0
    /\ registry = DefaultRegistry
    /\ active_production = "None"
    /\ violations = NoViolations
    /\ safety_results = <<>>
    /\ strategy_context = "MassProductionStrategy"
    /\ batch_size = 500
    /\ requirements = NoRequirements
    /\ instance = 1

SpecOperator == InitOperator /\ [][NextOperator]_vars

(***************************************************************************)
(* SpecControl: the central control system: machines registered, driven    *)
(* into every state, and shut down                                         *)
(***************************************************************************)
OrderIds == {"ORD001"}

ControlRegister == \E machine_id \in MachineIds, m \in Machines : RegisterMachine(machine_id, m)
ControlShutdown == TriggerEmergencyShutdown
ControlOrder == \E order_id \in OrderIds : StartProductionOrder(order_id)
ControlRequest == \E m \in Machines, req \in RepairRequests : HandleRequest(m, req)
ControlError == \E m \in Machines : SetError(m)
ControlStart == \E m \in Machines : StartOperation(m)

NextControl ==
    \/ ControlRegister
    \/ ControlShutdown
    \/ ControlOrder
    \/ ControlRequest
    \/ ControlError
    \/ ControlStart

InitControl ==
    /\ state = AllIdle
    /\ perf = NoMetrics
    /\ observers = DefaultObservers
    /\ notes = <<>>
    /\ ret = Ret("init", "none", TRUE)
    /\ lines = <<>>
    /\ commands = <<>>
    /\ history = <<>>
    /\ snapshots = <<>>
    /\ inventory = NoItems
    /\ reorder_levels = NoItems
    /\ on_order = NoItems
    /\ cc_inventory = NoItems
    /\ timers = EmptyBag
    /\ calls = NoCalls
    /\ consumption_active = FALSE
    /\ current_production = 0
    /\ loops = <<>>
    /\ tk = TkIdle
    /\ stop_returned = {}
    /\ ticks = 0
    /\ registry = <<>>
    /\ active_production = "None"
    /\ violations = NoViolations
    /\ safety_results = <<>>
    /\ strategy_context = "MassProductionStrategy"
    /\ batch_size = 500
    /\ requirements = NoRequirements
    /\ instance = 1

SpecControl == InitControl /\ [][NextControl]_vars

(***************************************************************************)
(* SpecBuild: one line as the builder can hand it out, its start and stop  *)
(* commands registered as in main.py; the line is started and stopped      *)
(* directly and through the command invoker while machines fail and are    *)
(* repaired                                                                *)
(***************************************************************************)
\* the lists of machines handed to the builder, by role
AssemblyLists == {<<>>, <<"AR001">>}
PackagingLists == {<<>>, <<"PR001">>}
QualityLists == {<<>>, <<"QC001">>}
\* a MassProductionStrategy, or no strategy
Strategies == {"mass", "None"}
\* the machines that fail and are repaired
Faulty == {"AR001", "PR001"}
\* the names execute_command is called with: the registered ones and one
\* that nothing is registered under
ExecutedNames == CommandNames \cup {"restart_production"}

BuildStart == \E l \in DOMAIN lines : LineStartCall(l)
BuildStop == \E l \in DOMAIN lines : LineStopCall(l)
BuildCommand == \E name \in ExecutedNames : ExecuteCommand(name)
BuildUndo == UndoLast
BuildRequest == \E m \in Faulty, req \in RepairRequests : HandleRequest(m, req)
BuildError == \E m \in Faulty : SetError(m)

NextBuild ==
    \/ BuildStart
    \/ BuildStop
    \/ BuildCommand
    \/ BuildUndo
    \/ BuildRequest
    \/ BuildError

InitBuild ==
    /\ state = AllIdle
    /\ perf = NoMetrics
    /\ observers = DefaultObservers
    /\ notes = <<>>
    /\ ret = Ret("init", "none", TRUE)
    /\ \E assembly \in AssemblyLists, packaging \in PackagingLists,
          quality \in QualityLists, strategy \in Strategies :
            lines = <<ProductionLine(assembly, packaging, quality, strategy)>>
    /\ commands = MainCommands
    /\ history = <<>>
    /\ snapshots = <<>>
    /\ inventory = NoItems
    /\ reorder_levels = NoItems
    /\ on_order = NoItems
    /\ cc_inventory = NoItems
    /\ timers = EmptyBag
    /\ calls = NoCalls
    /\ consumption_active = FALSE
    /\ current_production = 0
    /\ loops = <<>>
    /\ tk = TkIdle
    /\ stop_returned = {}
    /\ ticks = 0
    /\ registry = DefaultRegistry
    /\ active_production = "None"
    /\ violations = NoViolations
    /\ safety_results = <<>>
    /\ strategy_context = "MassProductionStrategy"
    /\ batch_size = 500
    /\ requirements = NoRequirements
    /\ instance = 1

SpecBuild == InitBuild /\ [][NextBuild]_vars

(***************************************************************************)
(* SpecDirector: lines asked of the director, of every type and with       *)
(* every composition; the lines it returns are started and stopped         *)
(***************************************************************************)
DirectorConstruct ==
    \E type \in LineTypes, assembly \in AssemblyLists, packaging \in PackagingLists,
       quality \in QualityLists, strategy \in Strategies :
          ConstructLine(type, assembly, packaging, quality, strategy)
DirectorStart == \E l \in DOMAIN lines : LineStartCall(l)
DirectorStop == \E l \in DOMAIN lines : LineStopCall(l)

NextDirector ==
    \/ DirectorConstruct
    \/ DirectorStart
    \/ DirectorStop

InitDirector ==
    /\ state = AllIdle
    /\ perf = NoMetrics
    /\ observers = DefaultObservers
    /\ notes = <<>>
    /\ ret = Ret("init", "none", TRUE)
    /\ lines = <<>>
    /\ commands = <<>>
    /\ history = <<>>
    /\ snapshots = <<>>
    /\ inventory = NoItems
    /\ reorder_levels = NoItems
    /\ on_order = NoItems
    /\ cc_inventory = NoItems
    /\ timers = EmptyBag
    /\ calls = NoCalls
    /\ consumption_active = FALSE
    /\ current_production = 0
    /\ loops = <<>>
    /\ tk = TkIdle
    /\ stop_returned = {}
    /\ ticks = 0
    /\ registry = DefaultRegistry
    /\ active_production = "None"
    /\ violations = NoViolations
    /\ safety_results = <<>>
    /\ strategy_context = "MassProductionStrategy"
    /\ batch_size = 500
    /\ requirements = NoRequirements
    /\ instance = 1

SpecDirector == InitDirector /\ [][NextDirector]_vars

(***************************************************************************)
(* SpecSafety: safety checks while machines fail and are repaired, stock   *)
(* is used and the line of main.py is started and stopped                  *)
(***************************************************************************)
\* the quantity raw_material_a and raw_material_b have been used down to
SafetyQuantity == 6
\* the materials check_critical_inventory reads
CriticalItems == {"raw_material_a", "raw_material_b"}

SafetyCheck == CheckSafety
SafetyUse == \E item \in CriticalItems : RemoveItem(item, 3)
SafetyError == \E m \in Faulty : SetError(m)
SafetyRepair == \E m \in Faulty : StopOperation(m)
SafetyCommand == \E name \in CommandNames : ExecuteCommand(name)

NextSafety ==
    \/ SafetyCheck
    \/ SafetyUse
    \/ SafetyError
    \/ SafetyRepair
    \/ SafetyCommand

InitSafety ==
    /\ state = AllIdle
    /\ perf = NoMetrics
    /\ observers = DefaultObservers
    /\ notes = <<>>
    /\ ret = Ret("init", "none", TRUE)
    /\ lines = MainLines
    /\ commands = MainCommands
    /\ history = <<>>
    /\ snapshots = <<>>
    /\ inventory = UsedDownTo(SafetyQuantity).inventory
    /\ reorder_levels = UsedDownTo(SafetyQuantity).reorder_levels
    /\ on_order = UsedDownTo(SafetyQuantity).on_order
    /\ cc_inventory = UsedDownTo(SafetyQuantity).cc_inventory
    /\ timers = UsedDownTo(SafetyQuantity).timers
    /\ calls = NoCalls
    /\ consumption_active = FALSE
    /\ current_production = 0
    /\ loops = <<>>
    /\ tk = TkIdle
    /\ stop_returned = {}
    /\ ticks = 0
    /\ registry = DefaultRegistry
    /\ active_production = "None"
    /\ violations = NoViolations
    /\ safety_results = <<>>
    /\ strategy_context = "MassProductionStrategy"
    /\ batch_size = 500
    /\ requirements = NoRequirements
    /\ instance = 1

SpecSafety == InitSafety /\ [][NextSafety]_vars

(***************************************************************************)
(* SpecStrategy: the three commands main.py registers, executed and undone *)
(* while a machine fails and is repaired and stock is used                 *)
(***************************************************************************)
\* the names main.py registers commands under
RegisteredNames == CommandNames \cup {"change_strategy"}

StrategyCommand == \E name \in RegisteredNames : ExecuteCommand(name)
StrategyUndo == UndoLast
StrategyError == \E m \in Guarded : SetError(m)
StrategyRepair == \E m \in Guarded : StopOperation(m)
StrategyUse == \E item \in CriticalItems : RemoveItem(item, 3)

NextStrategy ==
    \/ StrategyCommand
    \/ StrategyUndo
    \/ StrategyError
    \/ StrategyRepair
    \/ StrategyUse

InitStrategy ==
    /\ state = AllIdle
    /\ perf = NoMetrics
    /\ observers = DefaultObservers
    /\ notes = <<>>
    /\ ret = Ret("init", "none", TRUE)
    /\ lines = MainLines
    /\ commands = MainCommands \o <<ChangeCommand("change_strategy", "CustomBatchStrategy")>>
    /\ history = <<>>
    /\ snapshots = <<>>
    /\ inventory = UsedDownTo(SafetyQuantity).inventory
    /\ reorder_levels = UsedDownTo(SafetyQuantity).reorder_levels
    /\ on_order = UsedDownTo(SafetyQuantity).on_order
    /\ cc_inventory = UsedDownTo(SafetyQuantity).cc_inventory
    /\ timers = UsedDownTo(SafetyQuantity).timers
    /\ calls = NoCalls
    /\ consumption_active = FALSE
    /\ current_production = 0
    /\ loops = <<>>
    /\ tk = TkIdle
    /\ stop_returned = {}
    /\ ticks = 0
    /\ registry = DefaultRegistry
    /\ active_production = "None"
    /\ violations = NoViolations
    /\ safety_results = <<>>
    /\ strategy_context = "MassProductionStrategy"
    /\ batch_size = 500
    /\ requirements = NoRequirements
    /\ instance = 1

SpecStrategy == InitStrategy /\ [][NextStrategy]_vars

(***************************************************************************)
(* SpecRequirements: a mass strategy of some batch size asked for the      *)
(* requirements of orders of every quantity                                *)
(***************************************************************************)
\* the batch sizes: small ones, and those of the dashboard, main.py and the
\* default of the constructor
BatchSizes == 1..MaxBatchSize \cup {100, 500, 1000}
\* the order quantities: small ones, and one of several batches of 100
OrderQuantities == 0..MaxOrderQuantity \cup {250}

RequirementsCalculate == \E order_quantity \in OrderQuantities : CalculateRequirements(order_quantity)

NextRequirements == RequirementsCalculate

InitRequirements ==
    /\ state = AllIdle
    /\ perf = NoMetrics
    /\ observers = DefaultObservers
    /\ notes = <<>>
    /\ ret = Ret("init", "none", TRUE)
    /\ lines = <<>>
    /\ commands = <<>>
    /\ history = <<>>
    /\ snapshots = <<>>
    /\ inventory = NoItems
    /\ reorder_levels = NoItems
    /\ on_order = NoItems
    /\ cc_inventory = NoItems
    /\ timers = EmptyBag
    /\ calls = NoCalls
    /\ consumption_active = FALSE
    /\ current_production = 0
    /\ loops = <<>>
    /\ tk = TkIdle
    /\ stop_returned = {}
    /\ ticks = 0
    /\ registry = DefaultRegistry
    /\ active_production = "None"
    /\ violations = NoViolations
    /\ safety_results = <<>>
    /\ strategy_context = "MassProductionStrategy"
    /\ batch_size \in BatchSizes
    /\ requirements = NoRequirements
    /\ instance = 1

SpecRequirements == InitRequirements /\ [][NextRequirements]_vars

(***************************************************************************)
(* SpecSingleton: the class before its first construction; references are  *)
(* acquired again and again between registrations, protocol additions and  *)
(* inventory updates made through the reference already held               *)
(***************************************************************************)
SingletonNew == NewControlSystem
SingletonGet == GetInstance
SingletonRegister == instance # 0 /\ ControlRegister
SingletonProtocol == instance # 0 /\ AddSafetyProtocol
SingletonAdd == instance # 0 /\ LedgerAdd
SingletonRemove == instance # 0 /\ LedgerRemove

NextSingleton ==
    \/ SingletonNew
    \/ SingletonGet
    \/ SingletonRegister
    \/ SingletonProtocol
    \/ SingletonAdd
    \/ SingletonRemove

InitSingleton ==
    /\ state = AllIdle
    /\ perf = NoMetrics
    /\ observers = DefaultObservers
    /\ notes = <<>>
    /\ ret = Ret("init", "none", TRUE)
    /\ lines = <<>>
    /\ commands = <<>>
    /\ history = <<>>
    /\ snapshots = <<>>
    /\ inventory = NoItems
    /\ reorder_levels = NoItems
    /\ on_order = NoItems
    /\ cc_inventory = NoItems
    /\ timers = EmptyBag
    /\ calls = NoCalls
    /\ consumption_active = FALSE
    /\ current_production = 0
    /\ loops = <<>>
    /\ tk = TkIdle
    /\ stop_returned = {}
    /\ ticks = 0
    /\ registry = <<>>
    /\ active_production = "None"
    /\ violations = <<>>
    /\ safety_results = <<>>
    /\ strategy_context = "MassProductionStrategy"
    /\ batch_size = 500
    /\ requirements = NoRequirements
    /\ instance = 0

SpecSingleton == InitSingleton /\ [][NextSingleton]_vars

(***************************************************************************)
(* SpecRun: the dashboard while stock is drained by consumption threads    *)
(* only: start, stop, the consumption threads; no timer fires and nothing  *)
(* is removed by hand                                                      *)
(***************************************************************************)
RunStart == DashStart
RunStartCommand == DashStartCommand
RunStop == DashStop
RunTest == ConsumerTest
RunRemove == ConsumerRemove
RunCheck == ConsumerCheck

NextRun ==
    \/ RunStart
    \/ RunStartCommand
    \/ RunStop
    \/ RunTest
    \/ RunRemove
    \/ RunCheck

InitRun ==
    /\ state = AllIdle
    /\ perf = NoMetrics
    /\ observers = DefaultObservers
    /\ notes = <<>>
    /\ ret = Ret("init", "none", TRUE)
    /\ lines = <<>>
    /\ commands = <<>>
    /\ history = <<>>
    /\ snapshots = <<>>
    /\ \E q \in DashQuantities :
          /\ inventory = UsedDownTo(q).inventory
          /\ reorder_levels = UsedDownTo(q).reorder_levels
          /\ on_order = UsedDownTo(q).on_order
          /\ cc_inventory = UsedDownTo(q).cc_inventory
          /\ timers = UsedDownTo(q).timers
    /\ calls = NoCalls
    /\ consumption_active = FALSE
    /\ current_production = 0
    /\ loops = <<>>
    /\ tk = TkIdle
    /\ stop_returned = {}
    /\ ticks = 0
    /\ registry = DefaultRegistry
    /\ active_production = "None"
    /\ violations = NoViolations
    /\ safety_results = <<>>
    /\ strategy_context = "MassProductionStrategy"
    /\ batch_size = 500
    /\ requirements = NoRequirements
    /\ instance = 1

SpecRun == InitRun /\ [][NextRun]_vars

(***************************************************************************)
(* The transition table of the machine state machine, as specified         *)
(***************************************************************************)
\* the state a request leaves the machine in
TableNext ==
    [IDLE        |-> [handle_start |-> "ACTIVE", handle_stop |-> "IDLE",
                      handle_maintenance |-> "MAINTENANCE", handle_error |-> "ERROR"],
     ACTIVE      |-> [handle_start |-> "ACTIVE", handle_stop |-> "IDLE",
                      handle_maintenance |-> "ACTIVE", handle_error |-> "ERROR"],
     MAINTENANCE |-> [handle_start |-> "MAINTENANCE", handle_stop |-> "IDLE",
                      handle_maintenance |-> "MAINTENANCE", handle_error |-> "ERROR"],
     ERROR       |-> [handle_start |-> "ERROR", handle_stop |-> "ERROR",
                      handle_maintenance |-> "MAINTENANCE", handle_error |-> "ERROR"]]

\* whether the table accepts the request
TableAccepts ==
    [IDLE        |-> [handle_start |-> TRUE, handle_stop |-> FALSE,
                      handle_maintenance |-> TRUE, handle_error |-> TRUE],
     ACTIVE      |-> [handle_start |-> FALSE, handle_stop |-> TRUE,
                      handle_maintenance |-> FALSE, handle_error |-> TRUE],
     MAINTENANCE |-> [handle_start |-> FALSE, handle_stop |-> TRUE,
                      handle_maintenance |-> FALSE, handle_error |-> TRUE],
     ERROR       |-> [handle_start |-> FALSE, handle_stop |-> FALSE,
                      handle_maintenance |-> TRUE, handle_error |-> TRUE]]

\* the metrics the table says an error request records
TableMetric ==
    [IDLE |-> {}, ACTIVE |-> {"last_error"}, MAINTENANCE |-> {"maintenance_error"},
     ERROR |-> {"additional_error"}]

\* the step is a guarded request on machine m
IsRequestOn(m) == ret'.op \in Requests /\ ret'.target = m

(***************************************************************************)
(* Claims                                                                  *)
(***************************************************************************)
\* C1: every guarded request (start, stop, maintenance, error) made in any
\* machine state is accepted or rejected as the transition table says and
\* leaves the machine in the state the table gives; an accepted error request
\* records last_error from Active, maintenance_error from Maintenance and
\* additional_error from Error (staying in Error), and nothing from Idle.
C1_TransitionTable ==
    [][\A m \in Machines :
          IsRequestOn(m) =>
            /\ state'[m] = TableNext[state[m]][ret'.op]
            /\ ret'.val = TableAccepts[state[m]][ret'.op]
            /\ ret'.exc = "none"
            /\ perf'[m] = perf[m] \cup
                  (IF ret'.op = "handle_error" THEN TableMetric[state[m]] ELSE {})]_vars

\* C1 witness: an error request was accepted in Error, recorded
\* additional_error and left the machine in Error.
C1_Witness ==
    \E m \in Machines :
        /\ ret = Ret("handle_error", m, TRUE)
        /\ state[m] = "ERROR"
        /\ {"last_error", "additional_error"} \subseteq perf[m]

\* C2: a guarded request the table rejects returns False, changes no
\* machine's state or metrics and notifies no observer; a start request that
\* directly follows a start request on the same machine is rejected without
\* any notification and leaves the machine as the first one left it, Active
\* when the first one was accepted.
C2_RejectedChangesNothing ==
    [][\A m \in Machines :
          /\ (IsRequestOn(m) /\ ~TableAccepts[state[m]][ret'.op]) =>
                /\ ret'.val = FALSE
                /\ state' = state
                /\ perf' = perf
                /\ notes' = <<>>
          /\ (IsRequestOn(m) /\ ret'.op = "handle_start" /\ ret = Ret("handle_start", m, TRUE)) =>
                /\ state[m] = "ACTIVE"
                /\ state'[m] = "ACTIVE"
                /\ ret'.val = FALSE
                /\ notes' = <<>>]_vars

\* C2 witness: a second start request in a row was rejected on an Active
\* machine that has observers attached, and nobody was notified.
C2_Witness ==
    \E m \in Machines :
        /\ ret = Ret("handle_start", m, FALSE)
        /\ state[m] = "ACTIVE"
        /\ Len(observers[m]) > 0
        /\ notes = <<>>

\* C3: a successful production-line start makes no machine of the line Active
\* that was in Maintenance or Error when the line was started; only machines
\* that were Idle become Active.
C3_LineStartIsGuarded ==
    [][\A c \in 1..Len(commands) :
          (/\ ret' = Ret("execute_command", commands[c].name, TRUE)
           /\ c = FirstNamed(commands, commands[c].name)
           /\ commands[c].kind = "start") =>
             \A i \in 1..Len(Robots(lines[commands[c].line])) :
                LET m == Robots(lines[commands[c].line])[i] IN
                /\ state[m] \in {"MAINTENANCE", "ERROR"} => state'[m] # "ACTIVE"
                /\ (state'[m] = "ACTIVE" /\ state[m] # "ACTIVE") => state[m] = "IDLE"]_vars

\* the number of replenishment timers pending for an item
OrdersPending(item) ==
    BagCardinality([k \in {x \in BagToSet(timers) : x[1] = item} |-> timers[k]])

\* C4: in every reachable state of the ledger every item's quantity is >= 0,
\* whatever the interleaving of the removals of the consumption thread, the
\* manual removals and the replenishment receipts.
C4_QuantityNeverNegative ==
    \A item \in DOMAIN inventory : inventory[item] >= 0

\* C5: a remove_item call for more units than the item has, or for an item id
\* the ledger does not know, returns False without raising and leaves the
\* quantities, the reorder levels, the pending orders, the mirrored central
\* levels and the timers exactly as they were.
C5_FailedRemovalChangesNothing ==
    [][(/\ ret'.op = "remove_item"
        /\ \/ ret'.target \notin DOMAIN inventory
           \/ inventory[ret'.target] < ret'.arg) =>
            /\ ret'.val = FALSE
            /\ ret'.exc = "none"
            /\ inventory' = inventory
            /\ reorder_levels' = reorder_levels
            /\ on_order' = on_order
            /\ cc_inventory' = cc_inventory
            /\ timers' = timers]_vars

\* C5 witness: a removal of 2 units failed on an item holding 1 unit, which
\* is at or below its reorder level with no order pending; the quantity is
\* still 1 and nothing was ordered.
C5_Witness ==
    /\ ret = RetArg("remove_item", "raw_material_a", 2, FALSE)
    /\ "raw_material_a" \in DOMAIN inventory
    /\ inventory["raw_material_a"] = 1
    /\ cc_inventory["raw_material_a"] = 1
    /\ inventory["raw_material_a"] <= reorder_levels["raw_material_a"]
    /\ "raw_material_a" \notin DOMAIN on_order
    /\ timers = EmptyBag

\* C6: at most one replenishment is outstanding per item at any time, also
\* when removals run concurrently.
C6_OneOrderOutstanding ==
    \A item \in DOMAIN inventory : OrdersPending(item) <= 1

\* C7 as claimed: a completing replenishment increases the quantity by twice
\* the item's reorder level (the level the item has when the order completes)
\* and resets on_order.
C7_ReceivesTwiceTheLevel ==
    [][ret'.op = "_receive_order" =>
          /\ inventory'[ret'.target] = inventory[ret'.target] + 2 * reorder_levels[ret'.target]
          /\ ret'.target \notin DOMAIN on_order']_vars

\* C7 amended: an order is placed for twice the reorder level of that moment,
\* that quantity is what the pending order records and what its timer
\* carries; when the replenishment completes the quantity increases by
\* exactly the quantity ordered and on_order is reset, whatever
\* set_reorder_level or add_item did to the level in between.
C7_ReceivesWhatWasOrdered ==
    [][/\ \A item \in DOMAIN inventory' :
            (item \notin DOMAIN on_order /\ item \in DOMAIN on_order') =>
                /\ on_order'[item] = 2 * reorder_levels'[item]
                /\ timers' = timers (+) SetToBag({<<item, on_order'[item]>>})
       /\ ret'.op = "_receive_order" =>
            /\ ret'.target \in DOMAIN on_order
            /\ ret'.arg = on_order[ret'.target]
            /\ inventory'[ret'.target] = inventory[ret'.target] + on_order[ret'.target]
            /\ ret'.target \notin DOMAIN on_order']_vars

\* C7 witness: a replenishment completed after the reorder level had been
\* changed: what was delivered is not twice the level the item has now.
C7_Witness ==
    /\ ret.op = "_receive_order"
    /\ ret.arg # 2 * reorder_levels[ret.target]
    /\ ret.target \notin DOMAIN on_order

\* the step in which consumption thread t finds, after its removals, a
\* tracked material below the threshold of its strategy
DepletedTick(t) ==
    /\ loops[t].pc = "check"
    /\ loops'[t].pc # "check"
    /\ ~check_inventory(LedgerRec, loops[t].strategy_type)

\* C8: when a tick of the consumption loop leaves a tracked material below the
\* threshold of the strategy, production stops of itself: in that step the
\* status of the dashboard's production line becomes idle, every machine of
\* the line is idle, and the loop ends (so it decrements nothing more).
C8_DepletionStopsProduction ==
    [][\A t \in DOMAIN loops :
          DepletedTick(t) =>
              /\ loops'[t].pc = "done"
              /\ ~consumption_active'
              /\ lines'[current_production].status = "idle"
              /\ \A i \in DOMAIN Robots(lines'[current_production]) :
                    state'[Robots(lines'[current_production])[i]] = "IDLE"]_vars

\* the step in which consumption thread t returns from a remove_item call
\* that took units out of the ledger
Decrements(t) ==
    /\ loops[t].pc \in RemovePcs
    /\ loops'[t].pc # loops[t].pc
    /\ inventory' # inventory

\* C9: once a stop or an emergency shutdown has returned, a consumption loop
\* that was alive at that moment decrements nothing any more, whatever it was
\* doing when the handler ran.
C9_NoDecrementAfterStop ==
    [][\A t \in DOMAIN loops : t \in stop_returned => ~Decrements(t)]_vars

\* C10: at no time is more than one consumption loop still decrementing the
\* inventory, whatever sequence of starts and stops the operator makes.
C10_OneConsumptionLoop ==
    Cardinality({t \in DOMAIN loops : loops[t].pc \in RemovePcs}) <= 1

\* C11: emergency_shutdown completes without raising and leaves every
\* registered machine idle, whatever state each was in, and no active
\* production reference in the central control system.
C11_ShutdownIdlesEveryMachine ==
    ret.op = "emergency_shutdown" =>
        /\ ret.exc = "none"
        /\ \A i \in DOMAIN registry : state[registry[i].machine] = "IDLE"
        /\ active_production = "None"

\* an emergency shutdown of a registry in which a machine was in the error
\* state and another was registered too
C11_Witness ==
    /\ ret.op = "emergency_shutdown"
    /\ ret.arg > 0
    /\ Len(registry) > 1

\* C13: registering a machine under an id that is already registered raises
\* DuplicateRegistration and leaves the registry as it was.
C13_DuplicateRegistrationFails ==
    [][(ret'.op = "register_machine" /\ ret'.target \in RegisteredIds(registry)) =>
          /\ ret'.exc = "DuplicateRegistration"
          /\ registry' = registry
          /\ get_machine(registry', ret'.target) = get_machine(registry, ret'.target)]_vars

\* the machines assigned to a line, in any role
Assigned(ln) ==
    {ln.assembly_robots[i] : i \in DOMAIN ln.assembly_robots}
      \cup {ln.packaging_robots[i] : i \in DOMAIN ln.packaging_robots}
      \cup {ln.quality_control_bots[i] : i \in DOMAIN ln.quality_control_bots}

\* the last operation was stop() on a line, called directly or by the stop
\* command; the line it was called on
IsLineStop(r) == r.op = "stop" \/ (r.op = "execute_command" /\ r.target = "stop_production")
IsLineStart(r) == r.op = "start" \/ (r.op = "execute_command" /\ r.target = "start_production")
LineOf(r) == IF r.op \in {"start", "stop"} THEN r.arg ELSE commands[FirstNamed(commands, r.target)].line

\* C12: stop() of a production line succeeds whatever the states of its
\* machines and of the line: it returns True without raising, and afterwards
\* every assigned machine is idle and the line's status is idle.
C12_LineStopAlwaysSucceeds ==
    IsLineStop(ret) =>
        /\ ret.val
        /\ ret.exc = "none"
        /\ lines[LineOf(ret)].status = "idle"
        /\ \A m \in Assigned(lines[LineOf(ret)]) : state[m] = "IDLE"

\* a stop() that took one machine out of the error state and another out of
\* maintenance
C12_Witness ==
    /\ ret.op = "stop"
    /\ \E i \in DOMAIN notes : notes[i].message = <<"State changed", "ERROR", "IDLE">>
    /\ \E i \in DOMAIN notes : notes[i].message = <<"State changed", "MAINTENANCE", "IDLE">>

\* C15: a start that succeeds on a line whose machines are all idle leaves
\* every machine of the line, whatever its role, active and the line running.
C15_StartActivatesEveryMachine ==
    [][(/\ IsLineStart(ret')
        /\ ret'.val
        /\ \A m \in Assigned(lines[LineOf(ret')]) : state[m] = "IDLE") =>
            /\ lines'[LineOf(ret')].status = "running"
            /\ \A m \in Assigned(lines[LineOf(ret')]) : state'[m] = "ACTIVE"]_vars

\* a successful start of a line with a machine in each role, all idle before
C15_Witness ==
    /\ IsLineStart(ret)
    /\ ret.val
    /\ lines[1].status = "running"
    /\ Assigned(lines[1]) = Machines
    /\ \A m \in Machines :
          \E i \in DOMAIN notes :
              notes[i].machine = m /\ notes[i].message = <<"State changed", "IDLE", "ACTIVE">>

\* C16: start() on a line without assembly robot or without strategy raises
\* the validation error and has no effect: no machine changes state, nobody
\* is notified, the line is as before, and the command history is as before
\* when the start came through the invoker.
C16_InvalidStartHasNoEffect ==
    [][(/\ IsLineStart(ret')
        /\ \/ lines[LineOf(ret')].assembly_robots = <<>>
           \/ lines[LineOf(ret')].production_strategy = "None") =>
            /\ ret'.exc = "ValueError"
            /\ state' = state
            /\ perf' = perf
            /\ notes' = <<>>
            /\ lines' = lines
            /\ history' = history]_vars

\* a start command that failed on a line with machines but no assembly robot,
\* after the stop command of that line had gone into the history
C16_Witness ==
    /\ ret.op = "execute_command"
    /\ ret.target = "start_production"
    /\ ret.exc = "ValueError"
    /\ lines[1].assembly_robots = <<>>
    /\ lines[1].packaging_robots # <<>>
    /\ lines[1].status = "idle"
    /\ history = <<2>>

\* what the director is specified to ask of the machines of each line type
Composed(type, assembly, packaging, quality) ==
    CASE type = "mass" -> assembly # <<>> /\ packaging # <<>> /\ quality # <<>>
      [] type = "custom" -> assembly # <<>> /\ quality # <<>>
      [] OTHER -> assembly # <<>>

\* C14: the director refuses a line exactly when its type's composition rule
\* is not met (mass: assembly, packaging and quality control; custom:
\* assembly and quality control; generic: assembly), and a refused
\* construction adds no line and changes no machine, no inventory quantity
\* and no consumption loop.
C14_CompositionValidation ==
    /\ \A type \in LineTypes, assembly \in AssemblyLists, packaging \in PackagingLists,
          quality \in QualityLists, strategy \in Strategies :
            /\ (Construct(type, assembly, packaging, quality, strategy).exc = "ValueError")
                  <=> ~Composed(type, assembly, packaging, quality)
            /\ Composed(type, assembly, packaging, quality) =>
                  Construct(type, assembly, packaging, quality, strategy).line =
                      ProductionLine(assembly, packaging, quality, strategy)
    /\ [][(ret'.op = "construct" /\ ret'.exc = "none") =>
            /\ lines' = Append(lines, lines'[Len(lines')])
            /\ Composed(ret'.target, lines'[Len(lines')].assembly_robots,
                        lines'[Len(lines')].packaging_robots,
                        lines'[Len(lines')].quality_control_bots)]_vars
    /\ [][(ret'.op = "construct" /\ ret'.exc # "none") =>
            /\ ret'.exc = "ValueError"
            /\ lines' = lines
            /\ state' = state
            /\ perf' = perf
            /\ notes' = <<>>
            /\ inventory' = inventory
            /\ loops' = loops
            /\ consumption_active' = consumption_active]_vars

\* a custom line refused although it had an assembly robot, next to a line
\* built earlier that is running
C14_Witness ==
    /\ ret.op = "construct"
    /\ ret.target = "custom"
    /\ ret.arg = 1
    /\ ret.exc = "ValueError"
    /\ Len(lines) = 1
    /\ lines[1].status = "running"

\* what each protocol's predicate gives in the current state
Passes == condition_func(registry, MachineRec, LedgerRec)

\* C17: a protocol's violations counter never decreases; a call of
\* check_safety_protocols adds exactly 1 to the counter of each protocol whose
\* predicate is false and leaves the counter of each protocol whose predicate
\* is true; the call returns one (protocol, passed) pair per protocol, in the
\* order the protocols were added.
C17_ViolationsCountFailedChecks ==
    /\ [][\A i \in DOMAIN Protocols : violations'[i] >= violations[i]]_vars
    /\ [][ret'.op = "check_safety_protocols" =>
            /\ \A i \in DOMAIN Protocols :
                  violations'[i] = IF Passes[i] THEN violations[i] ELSE violations[i] + 1
            /\ Len(safety_results') = Len(Protocols)
            /\ \A i \in DOMAIN Protocols :
                  safety_results'[i] = [protocol |-> i, passed |-> Passes[i]]]_vars

\* a check in which the machine protocol passed, having failed once before,
\* and the inventory protocol failed for the second time
C17_Witness ==
    /\ ret.op = "check_safety_protocols"
    /\ safety_results = <<[protocol |-> 1, passed |-> TRUE], [protocol |-> 2, passed |-> FALSE]>>
    /\ violations = <<1, 2>>

\* C18: check_safety_protocols changes nothing but the violation counters (and
\* what it returns): machines, their metrics, the ledger, the lines, the
\* commands and the history are as before and no observer is notified, also
\* when a protocol fails.
C18_SafetyCheckOnlyCounts ==
    [][ret'.op = "check_safety_protocols" =>
          /\ state' = state
          /\ perf' = perf
          /\ notes' = <<>>
          /\ inventory' = inventory
          /\ on_order' = on_order
          /\ reorder_levels' = reorder_levels
          /\ cc_inventory' = cc_inventory
          /\ timers' = timers
          /\ lines' = lines
          /\ commands' = commands
          /\ history' = history
          /\ registry' = registry]_vars

\* a check that failed both protocols while the line was running with a
\* machine active and a machine in the error state
C18_Witness ==
    /\ ret = Ret("check_safety_protocols", "central_control", FALSE)
    /\ \A i \in DOMAIN safety_results : ~safety_results[i].passed
    /\ lines[1].status = "running"
    /\ \E m \in Machines : state[m] = "ACTIVE"
    /\ \E m \in Machines : state[m] = "ERROR"

\* the commands registered under a name, in registration order
Named(name) == {c \in DOMAIN commands : commands[c].name = name}

\* C19: execute_command(name) runs the forward action of the command
\* registered under the name (it takes its snapshot of the line's status) and
\* appends that command to the history exactly when the forward action
\* returned success; with no command under the name, or with a forward action
\* that fails, the history is as before, and with no command nothing at all
\* is done.
C19_ExecuteLogsSuccessOnly ==
    [][ret'.op = "execute_command" =>
          IF Named(ret'.target) = {}
          THEN /\ ~ret'.val
               /\ history' = history
               /\ lines' = lines
               /\ commands' = commands
               /\ state' = state
               /\ notes' = <<>>
          ELSE \E c \in Named(ret'.target) :
                  /\ commands'[c].previous_status = lines[commands[c].line].status
                  /\ history' = IF ret'.val /\ ret'.exc = "none"
                                THEN Append(history, c) ELSE history]_vars

\* a stop command logged after the start command, both having succeeded
C19_Witness ==
    /\ ret.op = "execute_command"
    /\ ret.target = "stop_production"
    /\ ret.val
    /\ history = <<1, 2>>
    /\ lines[1].status = "idle"

\* C20: undo_last_command removes the last entry of the history, and only
\* that one, and runs the inverse of its command: the line of the command is
\* stopped (after a start) or started (after a stop) and its status is set
\* back to the command's snapshot; with an empty history it returns False,
\* runs nothing and changes nothing.
C20_UndoTakesTheLastEntry ==
    [][ret'.op = "undo_last_command" =>
          IF history = <<>>
          THEN /\ ~ret'.val
               /\ history' = history
               /\ lines' = lines
               /\ commands' = commands
               /\ state' = state
               /\ perf' = perf
               /\ notes' = <<>>
          ELSE LET c == history[Len(history)]
                   l == commands[c].line
               IN  /\ history' = SubSeq(history, 1, Len(history) - 1)
                   /\ commands' = commands
                   /\ ret'.exc = "none" =>
                        /\ ret'.val
                        /\ lines'[l].status = commands[c].previous_status
                        /\ \A m \in Assigned(lines[l]) :
                              state'[m] = IF commands[c].kind = "start" THEN "IDLE"
                                                                       ELSE "ACTIVE"
                   /\ ret'.exc # "none" =>
                        /\ commands[c].kind = "stop"
                        /\ lines' = lines
                        /\ state' = state]_vars

\* the undo of a stop command that had been executed after a start command:
\* the start command stays in the history and the line runs again
C20_Witness ==
    /\ ret.op = "undo_last_command"
    /\ ret.val
    /\ history = <<1>>
    /\ lines[1].status = "running"
    /\ commands[2].previous_status = "running"
    /\ \A m \in Assigned(lines[1]) : state[m] = "ACTIVE"
    /\ Assigned(lines[1]) # {}

\* C21: every execution of the start command has its own snapshot of the
\* line's status: undoing an execution sets the status of the line back to
\* what it was when that execution began, also when the same registered
\* command went into the history more than once before the undos (execute,
\* execute, undo, undo on an idle line ends with the line idle).
C21_UndoRestoresOwnSnapshot ==
    [][(/\ ret'.op = "undo_last_command"
        /\ history # <<>>
        /\ commands[history[Len(history)]].kind = "start") =>
            lines'[commands[history[Len(history)]].line].status =
                snapshots[Len(snapshots)]]_vars

\* C22: a command that undo_last_command has popped cannot be executed by
\* name again before it is registered again: an execute_command of its name
\* that follows the undo runs no forward action (no machine and no line
\* changes, nobody is notified), returns False and appends nothing to the
\* history; and an undo takes exactly one execution out of the history, so
\* that no execution is undone twice.
C22_PoppedCommandNeedsRegistration ==
    /\ [][(/\ ret.op = "undo_last_command"
            /\ ret.arg # 0
            /\ ret'.op = "execute_command"
            /\ ret'.target = commands[ret.arg].name
            /\ Len(commands') = Len(commands)) =>
                /\ ~ret'.val
                /\ history' = history
                /\ lines' = lines
                /\ state' = state
                /\ notes' = <<>>]_vars
    /\ [][(ret'.op = "undo_last_command" /\ history # <<>>) =>
            history' = SubSeq(history, 1, Len(history) - 1)]_vars

\* C23: an undo that directly follows the execution of the change-strategy
\* command gives the strategy context the strategy it held before that
\* execution; and the undo of a change-strategy command changes nothing
\* else: no inventory quantity, no pending order, no machine state, no
\* line, and no observer is notified.
C23_UndoRevertsOnlyTheStrategy ==
    /\ [][(/\ ret = Ret("execute_command", "change_strategy", TRUE)
            /\ ret'.op = "undo_last_command") =>
                /\ ret'.val
                /\ commands[ret'.arg].name = "change_strategy"
                /\ strategy_context' = snapshots[Len(snapshots)]]_vars
    /\ [][(/\ ret'.op = "undo_last_command"
            /\ history # <<>>
            /\ commands[history[Len(history)]].kind = "change") =>
                /\ state' = state
                /\ perf' = perf
                /\ notes' = <<>>
                /\ lines' = lines
                /\ inventory' = inventory
                /\ on_order' = on_order
                /\ cc_inventory' = cc_inventory
                /\ timers' = timers
                /\ commands' = commands]_vars

\* the change of strategy undone while the line runs with a machine in the
\* error state and stock has been used: the context holds the mass strategy
\* again, the command still holds it as its previous strategy
C23_Witness ==
    /\ ret = RetArg("undo_last_command", "invoker", 3, TRUE)
    /\ strategy_context = "MassProductionStrategy"
    /\ commands[3].previous_strategy = "MassProductionStrategy"
    /\ history = <<1>>
    /\ lines[1].status = "running"
    /\ state["AR001"] = "ERROR"
    /\ inventory["raw_material_a"] < SafetyQuantity

\* C24: whatever a thread reads next to a running removal, it never finds an
\* item that a removal has already decremented to its reorder level or below
\* with no order pending and that removal's reorder check still to come, and
\* it never finds the quantity of an item and its mirrored central level
\* different.
C24_RemovalIsAtomicForReaders ==
    /\ \A t \in Callers :
          calls[t].pc = "check_reorder" =>
              ~(/\ inventory[calls[t].item] <= reorder_levels[calls[t].item]
                /\ calls[t].item \notin DOMAIN on_order)
    /\ \A item \in DOMAIN inventory : cc_inventory[item] = inventory[item]

\* how often observer o is in a list of observers
Attached(obs, o) == Cardinality({i \in DOMAIN obs : obs[i] = o})

\* the notifications of a change of state among the notifications of a step
StateChanges(ns) == SelectSeq(ns, LAMBDA n : n.message[1] = "State changed")

\* C25: an accepted guarded request that changes the state of the machine
\* notifies, within the request, every observer attached to the machine, in
\* the order of attachment, and each of them reads the new state from the
\* machine at that moment; and an observer that detach_observer has taken
\* out is no longer attached, so that it is not notified any more.
C25_ObserversNotifiedInOrder ==
    /\ [][\A m \in Machines :
            (IsRequestOn(m) /\ ret'.val /\ state'[m] # state[m]) =>
                /\ Len(StateChanges(notes')) = Len(observers[m])
                /\ \A i \in DOMAIN StateChanges(notes') :
                      StateChanges(notes')[i] =
                          [observer |-> observers[m][i], machine |-> m, seen |-> state'[m],
                           message |-> <<"State changed", state[m], state'[m]>>]
                /\ \A i \in DOMAIN notes' :
                      Attached(observers[m], notes'[i].observer) > 0]_vars
    /\ [][\A m \in Machines, o \in Observers :
            (/\ ret'.op = "detach_observer"
             /\ ret'.target = m
             /\ Attached(observers'[m], o) < Attached(observers[m], o)) =>
                Attached(observers'[m], o) = 0]_vars

\* the least n with n * b >= q, for b >= 1 and q >= 0
LeastBatches(b, q) ==
    CHOOSE n \in 0..q : n * b >= q /\ \A k \in 0..(n - 1) : k * b < q

C27_StartActsOnItsOwnLine ==
    [][(tk.pc = "start_command" /\ ret'.op = "_start_production" /\ ret'.val) =>
          /\ history' # <<>>
          /\ commands'[history'[Len(history')]].line = current_production
          /\ lines'[current_production].status = "running"]_vars

\* the line built in the start of production that launched consumption
\* thread t: every such start appends one line and one thread
LaunchedFor(t) == lines[t]

\* C28: a consumption loop takes material out of the ledger only while the
\* line it was launched for has status running: not before that line has
\* been set running, and not once it is idle.
C28_DecrementOnlyWhileRunning ==
    [][\A t \in DOMAIN loops :
          Decrements(t) => LaunchedFor(t).status = "running"]_vars

\* C29: every removal of a round of the consumption loop takes exactly the
\* rate of the loop's strategy (mass 3, custom 2, on-demand 1) out of the
\* material it is for and changes no other quantity, so that a round takes
\* the rate out of each of raw_material_a, raw_material_b and raw_material_c
\* and never out of some of them only.
C29_TickDecrementsEveryMaterial ==
    [][\A t \in DOMAIN loops :
          (loops[t].pc \in RemovePcs /\ loops'[t].pc # loops[t].pc) =>
              /\ ret'.val
              /\ inventory' = [inventory EXCEPT ![RemovedAt[loops[t].pc]] =
                                  @ - ConsumptionRates[loops[t].strategy_type]]]_vars

\* the machines that are assigned to none of the lines built so far
Unassigned == {m \in Machines : \A l \in DOMAIN lines : m \notin Assigned(lines[l])}

\* the step is a stop of production, by the operator or by depletion
IsProductionStop ==
    ret'.op = "_stop_production" \/ ret'.op = "_consume_inventory:depleted"

\* C30: a stop of production, asked for by the operator or made by the
\* consumption loop on depletion, changes the state of machines of the line
\* only: a registered machine that is assigned to no line keeps the state it
\* has across the stop.
C30_StopLeavesOtherMachines ==
    [][(IsProductionStop /\ current_production # 0) =>
          \A m \in Unassigned : state'[m] = state[m]]_vars

\* C31: every construction of the central control system after the first,
\* and every get_instance, returns the one instance there is and leaves its
\* machines, safety protocols, inventory levels and active production as
\* they were.
IsAcquisition(r) == r.op \in {"CentralControlSystem", "get_instance"}

C31_ReacquisitionKeepsTheInstance ==
    [][(IsAcquisition(ret') /\ instance # 0) =>
          /\ ret'.arg = instance
          /\ instance' = instance
          /\ registry' = registry
          /\ violations' = violations
          /\ cc_inventory' = cc_inventory
          /\ active_production' = active_production]_vars

\* a second construction, made when a machine, a protocol and an inventory
\* level had been registered through the first reference
C31_Witness ==
    /\ ret.op = "CentralControlSystem"
    /\ instance = 1
    /\ registry # <<>>
    /\ violations # <<>>
    /\ DOMAIN cc_inventory # {}

\* C32: with guarded requests only, a machine leaves Error only for
\* Maintenance, leaves Maintenance only for Idle or Error, and enters Active
\* only from Idle: so from Error it is Active again only after Maintenance
\* and then Idle, never by a step from Error or Maintenance to Active or
\* from Error to Idle.
C32_RecoveryPassesThroughMaintenance ==
    [][\A m \in Machines :
          state'[m] # state[m] =>
            /\ state[m] = "ERROR" => state'[m] = "MAINTENANCE"
            /\ state[m] = "MAINTENANCE" => state'[m] \in {"IDLE", "ERROR"}
            /\ state'[m] = "ACTIVE" => state[m] = "IDLE"]_vars

\* a machine that failed while Active and during its maintenance is Active
\* again
C32_Witness ==
    \E m \in Machines :
        /\ ret = Ret("handle_start", m, TRUE)
        /\ state[m] = "ACTIVE"
        /\ {"last_error", "maintenance_error"} \subseteq perf[m]

\* C33: an item whose quantity is at or below its reorder level has a
\* replenishment pending: it is in on_order.
C33_LowStockIsOnOrder ==
    \A item \in DOMAIN inventory :
        inventory[item] <= reorder_levels[item] => item \in DOMAIN on_order

\* C34: for every item id, the level the central control system reports is
\* the quantity the ledger reports, after any sequence of add_item (also for
\* an id that exists already), remove_item and replenishment receipt.
C34_CentralLevelIsLedgerQuantity ==
    \A item \in AskedItems \cup DOMAIN inventory \cup DOMAIN cc_inventory :
        get_inventory_level(LedgerRec, item) = get_item_quantity(LedgerRec, item)

\* the state every machine had before the last operation changed it, as the
\* observers were told, agrees with line status st: Active for a running
\* line, Idle for an idle one
ToldStatesAgree(st) ==
    \A i \in DOMAIN notes :
        notes[i].message[1] = "State changed" =>
            notes[i].message[2] = IF st = "running" THEN "ACTIVE" ELSE "IDLE"

\* C35: an undo that directly follows the execute of the stop command leaves
\* the line with the status and its machines with the states they had before
\* the execute, when the line was Running with its machines Active and when
\* it was Idle with its machines Idle.
C35_StopUndoRestoresTheLine ==
    [][(/\ ret.op = "execute_command"
        /\ ret.target = "stop_production"
        /\ ret.val
        /\ ret'.op = "undo_last_command"
        /\ history # <<>>
        /\ commands[history[Len(history)]].kind = "stop"
        /\ ToldStatesAgree(snapshots[Len(snapshots)])) =>
            /\ lines'[commands[history[Len(history)]].line].status =
                  snapshots[Len(snapshots)]
            /\ \A i \in DOMAIN notes :
                  notes[i].message[1] = "State changed" =>
                      state'[notes[i].machine] = notes[i].message[2]]_vars

\* the materials a consumption loop removes
Tracked == {RemovedAt[pc] : pc \in RemovePcs}

\* consumption thread t is the only drain of its run: it has not returned,
\* no stop or shutdown has returned during its life, and every other
\* consumption thread has returned
SoleLoop(t) ==
    /\ t \in Alive
    /\ t \notin stop_returned
    /\ Alive = {t}

\* C36: while a run is drained only by its consumption loop, every tracked
\* material holds at least the threshold of the loop's strategy less its
\* rate, and at least the threshold when the loop is about to test its flag
\* and when a tick begins.
C36_StockStaysAboveThreshold ==
    \A t \in DOMAIN loops :
        SoleLoop(t) =>
            \A item \in Tracked :
                /\ get_item_quantity(LedgerRec, item) >=
                      Required[loops[t].strategy_type] - ConsumptionRates[loops[t].strategy_type]
                /\ loops[t].pc \in {"test", "remove_a"} =>
                      get_item_quantity(LedgerRec, item) >= Required[loops[t].strategy_type]

\* a mass-production loop has finished the removals of a tick that began
\* with a material at the threshold: the material is at threshold - rate and
\* the test that stops the run is still to come
C36_Witness ==
    \E t \in DOMAIN loops :
        /\ SoleLoop(t)
        /\ loops[t].pc = "check"
        /\ loops[t].strategy_type = "mass"
        /\ \A item \in Tracked : get_item_quantity(LedgerRec, item) = 27

====
